---------------------------- MODULE Spec2Model ----------------------------
(***************************************************************************)
(* Model of the Minor-value pipeline of LabelingToPDF:                     *)
(*   organize_by_minor.py  (classify:  organize_files)                     *)
(*   recheck_unknown.py    (reconcile: recheck_unknown_files)              *)
(*                                                                         *)
(* Strings are sequences of characters; a character is a one-token string. *)
(* The Korean syllables of the source are written in romanised form, since *)
(* the tools read ASCII only:                                              *)
(*     "seol" "chi"  =  the keyword written U+C124 U+CE58 (installed)      *)
(*     "bi"   "con"  =  the keyword written U+BE44 U+CF58 (beacon)         *)
(* Python's None is the one-token sequence <<"None">>, which is no string  *)
(* over the alphabet.                                                      *)
(***************************************************************************)
EXTENDS Naturals, Sequences, FiniteSets, TLC

NoneVal == <<"None">>

Digit == {"0", "1", "2", "3", "4", "5", "6", "7", "8", "9"}

\* The characters in code-point order, as Python compares strings.
CharOrder ==
  << ".", "0", "1", "2", "3", "4", "5", "6", "7", "8", "9",
     "E", "G", "I", "J", "N", "O", "P", "_",
     "d", "e", "g", "j", "l", "n", "o", "p", "u", "x", "|",
     "bi", "seol", "chi", "con" >>

-----------------------------------------------------------------------------
(* Regular-expression and string helpers, as the re / str calls compute.   *)

IsDigits(s) == \A i \in 1..Len(s) : s[i] \in Digit

Drop(s, n) == SubSeq(s, n + 1, Len(s))

Take(s, n) == SubSeq(s, 1, n)

EndsWith(s, t) == Len(s) >= Len(t) /\ Drop(s, Len(s) - Len(t)) = t

\* Positions where a maximal run of decimal digits starts (re.findall(r'\d+')).
RunStarts(s) ==
  {i \in 1..Len(s) : s[i] \in Digit /\ (i = 1 \/ s[i - 1] \notin Digit)}

\* Last index of the maximal digit run that starts at i.
RunEnd(s, i) ==
  CHOOSE j \in i..Len(s) :
      /\ \A k \in i..j : s[k] \in Digit
      /\ (j = Len(s) \/ s[j + 1] \notin Digit)

RunAt(s, i) == SubSeq(s, i, RunEnd(s, i))

MinOf(S) == CHOOSE x \in S : \A y \in S : x <= y

MaxOf(S) == CHOOSE x \in S : \A y \in S : x >= y

\* Length of the run of digits that ends the string (0 when it ends otherwise).
TrailingDigits(s) ==
  IF s = <<>> \/ s[Len(s)] \notin Digit THEN 0
  ELSE Len(s) - MaxOf(RunStarts(s)) + 1

\* int(s) for a string of decimal digits.
RECURSIVE ToInt(_)
ToInt(s) ==
  IF s = <<>> THEN 0
  ELSE 10 * ToInt(Take(s, Len(s) - 1))
       + (CHOOSE d \in 0..9 : CharOrder[d + 2] = s[Len(s)])

\* str(n) for a natural number.
RECURSIVE ToStr(_)
ToStr(n) ==
  IF n < 10 THEN << CharOrder[n + 2] >>
  ELSE ToStr(n \div 10) \o << CharOrder[(n % 10) + 2] >>

\* str.zfill(4)
RECURSIVE Zfill4(_)
Zfill4(s) == IF Len(s) >= 4 THEN s ELSE Zfill4(<<"0">> \o s)

\* f"{n:04d}"
Format04d(n) == Zfill4(ToStr(n))

-----------------------------------------------------------------------------
(* The filename parser.                                                    *)

ImageExtStrings ==
  { <<"j", "p", "g">>, <<"j", "p", "e", "g">>, <<"p", "n", "g">>,
    <<"J", "P", "G">>, <<"J", "P", "E", "G">>, <<"P", "N", "G">> }

\* re.sub(r'\.(jpg|jpeg|png|JPG|JPEG|PNG)$', '', filename)
StripExt(filename) ==
  IF \E e \in ImageExtStrings : EndsWith(filename, <<".">> \o e)
  THEN LET e == CHOOSE x \in ImageExtStrings : EndsWith(filename, <<".">> \o x)
       IN  Take(filename, Len(filename) - Len(e) - 1)
  ELSE filename

\* Start positions of the keyword directly followed by a digit.
InstallStarts(prefix) ==
  {i \in 1..Len(prefix) :
      /\ i + 2 <= Len(prefix)
      /\ prefix[i] = "seol" /\ prefix[i + 1] = "chi"
      /\ prefix[i + 2] \in Digit}

\* The candidate of a prefix: the digits after the keyword, else the last run
\* of digits, else nothing (the three-step block repeated under each pattern).
PrefixCandidate(prefix) ==
  IF InstallStarts(prefix) # {}
  THEN RunAt(prefix, MinOf(InstallStarts(prefix)) + 2)
  ELSE IF RunStarts(prefix) # {}
       THEN RunAt(prefix, MaxOf(RunStarts(prefix)))
       ELSE NoneVal

\* re.search(r'^(.+?)(25\d{7})$', name): the date is the last 9 characters.
Pattern9(name) ==
  /\ Len(name) >= 10
  /\ LET date == Drop(name, Len(name) - 9)
     IN  date[1] = "2" /\ date[2] = "5" /\ IsDigits(date)

\* re.search(r'^(.+?)(\d{8})$', name): the date is the last 8 characters.
Pattern8(name) == Len(name) >= 9 /\ IsDigits(Drop(name, Len(name) - 8))

\* re.search(r'^(.+?)(\d{6,})$', name): the lazy prefix is the shortest one
\* (at least one character) that leaves only digits, six or more.
Pattern6Prefix(name) ==
  LET k == IF TrailingDigits(name) = Len(name) THEN 1
           ELSE Len(name) - TrailingDigits(name)
  IN  IF Len(name) >= 1 /\ Len(name) - k >= 6 /\ IsDigits(Drop(name, k))
      THEN k ELSE 0

extract_minor_from_filename(filename) ==
  LET name == StripExt(filename)
      c9 == IF Pattern9(name)
            THEN PrefixCandidate(Take(name, Len(name) - 9)) ELSE NoneVal
      date8 == Drop(name, Len(name) - 8)
      c8 == IF Pattern8(name) /\ ~(date8[1] = "2" /\ date8[2] = "5")
            THEN PrefixCandidate(Take(name, Len(name) - 8)) ELSE NoneVal
      c6 == IF Pattern6Prefix(name) > 0
            THEN PrefixCandidate(Take(name, Pattern6Prefix(name))) ELSE NoneVal
  IN  IF c9 # NoneVal THEN c9
      ELSE IF c8 # NoneVal THEN c8
      ELSE c6

-----------------------------------------------------------------------------
(* The value normaliser.                                                   *)

\* str.replace('O', '0').replace('o', '0')
ReplaceO(s) == [i \in 1..Len(s) |-> IF s[i] \in {"O", "o"} THEN "0" ELSE s[i]]

\* normalize_four_digit_minor without the replacement of O and o.
normalize_four_digit_minor_no_replace(value_str) ==
  IF value_str = <<>> THEN NoneVal
  ELSE IF RunStarts(value_str) # {}
       THEN LET num_str == RunAt(value_str, MinOf(RunStarts(value_str)))
            IN  IF Len(num_str) >= 4 THEN Zfill4(Take(num_str, 4))
                ELSE Zfill4(num_str)
       ELSE NoneVal

normalize_four_digit_minor(value_str) ==
  IF value_str = <<>> THEN NoneVal
  ELSE LET v == ReplaceO(value_str)
       IN  IF RunStarts(v) # {}
           THEN LET num_str == RunAt(v, MinOf(RunStarts(v)))
                IN  IF Len(num_str) >= 4 THEN Zfill4(Take(num_str, 4))
                    ELSE Zfill4(num_str)
           ELSE NoneVal

-----------------------------------------------------------------------------
(* The extraction orchestrator of the reconcile step.                      *)
(*                                                                         *)
(* What the OCR engine and the pattern cascade yield for one image is a    *)
(* record [raises, bottom_left, captures, late]: raises says that image    *)
(* loading or the engine raises an exception; bottom_left says that        *)
(* bottom_left_text is not empty; captures lists, in the order in which    *)
(* the cascade reaches them, the strings value_str that its regular        *)
(* expressions capture up to the whole-image search of the four digit      *)
(* patterns, and late those captured from beacon_patterns_flexible on.     *)

OcrRaise ==
  [raises |-> TRUE, bottom_left |-> TRUE, captures |-> <<>>, late |-> <<>>]

OcrText(bottom_left, captures, late) ==
  [raises |-> FALSE, bottom_left |-> bottom_left, captures |-> captures,
   late |-> late]

\* Every return of the cascade has the same shape:
\*     result = normalize_four_digit_minor(value_str)
\*     if result and result != "0000": return result
Accepted(value_str) ==
  /\ normalize_four_digit_minor(value_str) # NoneVal
  /\ normalize_four_digit_minor(value_str) # <<"0", "0", "0", "0">>

PatternCascade(captures) ==
  IF \E i \in 1..Len(captures) : Accepted(captures[i])
  THEN normalize_four_digit_minor(
         captures[MinOf({i \in 1..Len(captures) : Accepted(captures[i])})])
  ELSE NoneVal

\* The OCR part of extract_minor_value, inside its try block.  With an empty
\* bottom_left_text the whole-image search reads beacon_patterns_flexible
\* before its assignment: the UnboundLocalError is caught by the handler of
\* the function, which returns None.
OcrPart(o) ==
  IF o.raises THEN NoneVal
  ELSE IF PatternCascade(o.captures) # NoneVal THEN PatternCascade(o.captures)
  ELSE IF ~o.bottom_left THEN NoneVal
  ELSE PatternCascade(o.late)

\* extract_minor_value whose exception handler returns a default value.
extract_minor_value_default_on_error(filename, o) ==
  LET filename_minor == extract_minor_from_filename(filename)
  IN  IF filename_minor # NoneVal /\ Len(filename_minor) < 5
      THEN Format04d(ToInt(filename_minor))
      ELSE IF o.raises THEN <<"0", "0", "0", "0">>
      ELSE OcrPart(o)

\* extract_minor_value that asks the OCR part first and the filename last.
extract_minor_value_ocr_first(filename, o) ==
  LET filename_minor == extract_minor_from_filename(filename)
  IN  IF OcrPart(o) # NoneVal THEN OcrPart(o)
      ELSE IF filename_minor # NoneVal /\ Len(filename_minor) < 5
           THEN Format04d(ToInt(filename_minor))
           ELSE NoneVal

extract_minor_value(filename, o) ==
  LET filename_minor == extract_minor_from_filename(filename)
  IN  IF filename_minor # NoneVal /\ Len(filename_minor) < 5
      THEN Format04d(ToInt(filename_minor))
      ELSE OcrPart(o)

-----------------------------------------------------------------------------
(* The texts the OCR engine reads, and the regular expressions of the      *)
(* cascades.                                                               *)
(*                                                                         *)
(* A text is a sequence of tokens: " " is the blank, ":" and "fw:" the     *)
(* two colons of [:U+FF1A], and besides the digits and letters there are   *)
(* the syllables "bi" "con" "cok" "bip" (U+BE44 U+CF58 U+CF55 U+BE55),     *)
(* "seol" "chi", "gong" "jong" (U+ACF5 U+C885) and the words that the      *)
(* Minor alternations list, each one token.                                *)
(*                                                                         *)
(* A pattern is a record: kw the keyword, a sequence of token classes; gap *)
(* what stands between keyword and capture group; cls, lo, hi the class    *)
(* and the bounds of the capture group (hi = 0 for +); look the lookahead  *)
(* behind the group; lead for a leading \S+\s+; rev for the patterns that  *)
(* have the group first, then \s*, then the keyword.                       *)

Space == " "

\* [0-9OoIl|]
OcrDigit == Digit \cup {"O", "o", "I", "l", "|"}

\* The class under re.IGNORECASE.
OcrDigitIgnoreCase == OcrDigit \cup {"i", "L"}

\* [:U+FF1A]
Colon == {":", "fw:"}

Smaller(a, b) == IF a <= b THEN a ELSE b

\* The first position from k on that holds no token of cls (Len + 1 at the
\* end of the text).
SkipWhile(text, k, cls) ==
  MinOf({j \in k..(Len(text) + 1) : j = Len(text) + 1 \/ text[j] \notin cls})

RunLen(text, k, cls) == SkipWhile(text, k, cls) - k

KwAt(text, i, kw) ==
  /\ i >= 1
  /\ i + Len(kw) - 1 <= Len(text)
  /\ \A t \in 1..Len(kw) : text[i + t - 1] \in kw[t]

\* Where the capture group starts when the keyword ends before position j,
\* 0 when the gap does not match:
\*   "spaces1" \s+      "skip" \s*      "colon" \s*[:U+FF1A]?\s*
\*   "colons" \s*[:\s]*      "none" nothing      "word" \s+\S+\s+
GapEnd(text, j, gap) ==
  CASE gap = "spaces1" ->
         IF j <= Len(text) /\ text[j] = Space
         THEN SkipWhile(text, j, {Space}) ELSE 0
    [] gap = "skip" -> SkipWhile(text, j, {Space})
    [] gap = "colon" ->
         LET a == SkipWhile(text, j, {Space})
             b == IF a <= Len(text) /\ text[a] \in Colon THEN a + 1 ELSE a
         IN  SkipWhile(text, b, {Space})
    [] gap = "colons" -> SkipWhile(text, j, {Space, ":"})
    [] gap = "none" -> j
    [] gap = "word" ->
         IF j <= Len(text) /\ text[j] = Space
         THEN LET w == SkipWhile(text, j, {Space})
                  e == MinOf({q \in w..(Len(text) + 1) :
                                q = Len(text) + 1 \/ text[q] = Space})
              IN  IF w <= Len(text) /\ e <= Len(text)
                  THEN SkipWhile(text, e, {Space}) ELSE 0
         ELSE 0

\* The lookahead at position q: "date25" (?=25\d{4,}), "six" (?=\d{6}).
Lookahead(text, q, look) ==
  CASE look = "date25" ->
         /\ q + 5 <= Len(text)
         /\ text[q] = "2" /\ text[q + 1] = "5"
         /\ \A t \in 2..5 : text[q + t] \in Digit
    [] look = "six" ->
         /\ q + 5 <= Len(text)
         /\ \A t \in 0..5 : text[q + t] \in Digit
    [] OTHER -> TRUE

\* The length the greedy capture group takes at position k (0: no match).
CapLen(text, k, p) ==
  IF k = 0 \/ k > Len(text) THEN 0
  ELSE LET run == RunLen(text, k, p.cls)
           top == IF p.hi = 0 THEN run ELSE Smaller(run, p.hi)
           ok == {m \in p.lo..top : Lookahead(text, k + m, p.look)}
       IN  IF ok = {} THEN 0 ELSE MaxOf(ok)

\* \S+\s+ can end just before position i.
LeadBefore(text, i) ==
  /\ i > 2
  /\ text[i - 1] = Space
  /\ \E b \in 1..(i - 2) :
       text[b] # Space /\ \A q \in (b + 1)..(i - 1) : text[q] = Space

\* The group of the match whose keyword starts at i, for a pattern that has
\* the keyword first.
ForwardAt(text, i, p) ==
  IF KwAt(text, i, p.kw) /\ (p.lead => LeadBefore(text, i))
  THEN LET k == GapEnd(text, i + Len(p.kw), p.gap)
           n == CapLen(text, k, p)
       IN  IF n > 0 THEN SubSeq(text, k, k + n - 1) ELSE NoneVal
  ELSE NoneVal

\* The group of the match that starts at i, for a pattern that has the group
\* first: the longest group after which \s* and the keyword follow.
ReverseAt(text, i, p) ==
  LET run == RunLen(text, i, p.cls)
      ok == {m \in p.lo..Smaller(run, p.hi) :
               KwAt(text, SkipWhile(text, i + m, {Space}), p.kw)}
  IN  IF ok = {} THEN NoneVal ELSE SubSeq(text, i, i + MaxOf(ok) - 1)

GroupAt(text, i, p) ==
  IF p.rev THEN ReverseAt(text, i, p) ELSE ForwardAt(text, i, p)

\* re.findall(pattern, text)[0], NoneVal when the list is empty.
FindFirst(p, text) ==
  LET hits == {i \in 1..Len(text) : GroupAt(text, i, p) # NoneVal}
  IN  IF hits = {} THEN NoneVal ELSE GroupAt(text, MinOf(hits), p)

\* re.search(r'([0-9OoIl|]{lo,hi})', text).group(1), NoneVal without match.
FirstRun(text, lo, hi) ==
  LET hits == {i \in 1..Len(text) : RunLen(text, i, OcrDigit) >= lo}
  IN  IF hits = {} THEN NoneVal
      ELSE SubSeq(text, MinOf(hits),
                  MinOf(hits) + Smaller(RunLen(text, MinOf(hits), OcrDigit), hi) - 1)

\* re.search(r'([0-9OoIl|]{lo,hi})\s*$', text).group(1)
TrailingRun(text, lo, hi) ==
  LET hits == {i \in 1..Len(text) :
                 \E m \in lo..Smaller(RunLen(text, i, OcrDigit), hi) :
                    SkipWhile(text, i + m, {Space}) = Len(text) + 1}
  IN  IF hits = {} THEN NoneVal
      ELSE LET i == MinOf(hits)
               m == MaxOf({n \in lo..Smaller(RunLen(text, i, OcrDigit), hi) :
                             SkipWhile(text, i + n, {Space}) = Len(text) + 1})
           IN  SubSeq(text, i, i + m - 1)

\* re.findall(r'([0-9OoIl|]{3,4})', text) from position i on.
RECURSIVE AllNumbersFrom(_, _)
AllNumbersFrom(text, i) ==
  IF i > Len(text) THEN <<>>
  ELSE IF RunLen(text, i, OcrDigit) >= 3
       THEN LET n == Smaller(RunLen(text, i, OcrDigit), 4)
            IN  <<SubSeq(text, i, i + n - 1)>> \o AllNumbersFrom(text, i + n)
       ELSE AllNumbersFrom(text, i + 1)

\* Pattern constructors.
Fwd(lead, kw, gap, cls, lo, hi) ==
  [rev |-> FALSE, lead |-> lead, kw |-> kw, gap |-> gap, cls |-> cls,
   lo |-> lo, hi |-> hi, look |-> "none"]

Look(kw, gap, cls, lo, hi, look) ==
  [rev |-> FALSE, lead |-> FALSE, kw |-> kw, gap |-> gap, cls |-> cls,
   lo |-> lo, hi |-> hi, look |-> look]

Rev(kw, cls, lo, hi) ==
  [rev |-> TRUE, lead |-> FALSE, kw |-> kw, gap |-> "skip", cls |-> cls,
   lo |-> lo, hi |-> hi, look |-> "none"]

\* The keywords of the patterns.
KwBeacon == << {"bi"}, {"con"} >>

\* U+BE44 then [U+CF58 U+CF55]; the class with U+CF58 twice is the same class.
KwBeaconCok == << {"bi"}, {"con", "cok"} >>

KwBi == << {"bi"} >>

KwCon == << {"con"} >>

KwInstall == << {"seol"}, {"chi"} >>

KwGongjong == << {"gong"}, {"jong"} >>

\* (?:Minor|Mnor|Inor|minor|mnor|inor); the lists of Minor patterns are
\* matched with re.IGNORECASE, of which the tokens keep the two spellings
\* that the alternations write out.
MinorWords == {"Minor", "Mnor", "Inor", "minor", "mnor", "inor"}

\* The longer alternation of organize_by_minor, with M|nor as it is written:
\* the two alternatives M and nor.
MinorWordsLong ==
  MinorWords \cup {"Mior", "Mmor", "M1nor", "M", "m", "nor", "mior", "mmor",
                   "m1nor"}

\* The alternation of minor_patterns_flexible: the long one without M|nor.
MinorWordsFlexible ==
  MinorWords \cup {"Mior", "Mmor", "M1nor", "mior", "mmor", "m1nor"}

\* The five shapes that open a block of beacon_patterns_four_digit, for one
\* spelling kw of the keyword and the group bounds lo, hi.
BeaconBlock(kw, lo, hi) ==
  << Fwd(FALSE, kw, "spaces1", OcrDigit, lo, hi),
     Fwd(FALSE, kw, "colon", OcrDigit, lo, hi),
     Fwd(FALSE, kw, "colons", OcrDigit, lo, hi),
     Fwd(FALSE, kw, "none", OcrDigit, lo, hi),
     Rev(kw, OcrDigit, lo, hi) >>

\* beacon_patterns_four_digit of organize_by_minor (lo = hi = 4), and the
\* first 22 patterns of the list of recheck_unknown (lo = 3, hi = 4).
BeaconPatterns22(lo, hi) ==
  BeaconBlock(KwBeacon, lo, hi)
  \o << Fwd(TRUE, KwBeacon, "spaces1", OcrDigit, lo, hi),
        Fwd(TRUE, KwBeacon, "colon", OcrDigit, lo, hi),
        Fwd(TRUE, KwBeacon, "colons", OcrDigit, lo, hi),
        Fwd(FALSE, KwBeacon, "word", OcrDigit, lo, hi) >>
  \o BeaconBlock(KwBeaconCok, lo, hi)
  \o << Fwd(TRUE, KwBeaconCok, "spaces1", OcrDigit, lo, hi),
        Fwd(FALSE, KwBeaconCok, "word", OcrDigit, lo, hi),
        Fwd(FALSE, KwBeaconCok, "spaces1", OcrDigit, lo, hi),
        Fwd(FALSE, KwBeaconCok, "colon", OcrDigit, lo, hi),
        Fwd(FALSE, KwBeaconCok, "colons", OcrDigit, lo, hi),
        Fwd(FALSE, KwBeaconCok, "none", OcrDigit, lo, hi),
        Fwd(TRUE, KwBeaconCok, "spaces1", OcrDigit, lo, hi),
        Fwd(FALSE, KwBeaconCok, "word", OcrDigit, lo, hi) >>

organize_beacon_patterns_four_digit == BeaconPatterns22(4, 4)

recheck_beacon_patterns_four_digit ==
  BeaconPatterns22(3, 4)
  \o << Fwd(FALSE, KwBi, "spaces1", OcrDigit, 3, 4),
        Fwd(FALSE, KwBi, "colon", OcrDigit, 3, 4),
        Fwd(TRUE, KwBi, "spaces1", OcrDigit, 3, 4),
        Fwd(FALSE, KwCon, "spaces1", OcrDigit, 3, 4),
        Fwd(FALSE, KwCon, "colon", OcrDigit, 3, 4),
        Fwd(TRUE, KwCon, "spaces1", OcrDigit, 3, 4) >>

\* The three shapes of a block of beacon_patterns_flexible.
FlexibleBlock(kw) ==
  << Fwd(FALSE, kw, "spaces1", OcrDigit, 1, 0),
     Fwd(FALSE, kw, "colon", OcrDigit, 1, 0),
     Fwd(FALSE, kw, "none", OcrDigit, 1, 0) >>

\* beacon_patterns_flexible, the same list in both files.
beacon_patterns_flexible ==
  FlexibleBlock(KwBeacon)
  \o << Fwd(TRUE, KwBeacon, "spaces1", OcrDigit, 1, 0),
        Fwd(TRUE, KwBeacon, "colon", OcrDigit, 1, 0),
        Fwd(FALSE, KwBeacon, "word", OcrDigit, 1, 0) >>
  \o FlexibleBlock(KwBeaconCok)
  \o << Fwd(TRUE, KwBeaconCok, "spaces1", OcrDigit, 1, 0),
        Fwd(FALSE, KwBeaconCok, "word", OcrDigit, 1, 0) >>
  \o FlexibleBlock(KwBeaconCok)
  \o << Fwd(TRUE, KwBeaconCok, "spaces1", OcrDigit, 1, 0),
        Fwd(FALSE, KwBeaconCok, "word", OcrDigit, 1, 0) >>

\* install_patterns of recheck_unknown (lo = 3, hi = 4) and
\* install_patterns_four_digit of organize_by_minor (lo = hi = 4).
InstallPatterns(lo, hi) ==
  << Fwd(FALSE, KwInstall, "colon", OcrDigit, lo, hi),
     Fwd(FALSE, KwInstall, "spaces1", OcrDigit, lo, hi),
     Fwd(FALSE, KwInstall, "none", OcrDigit, lo, hi),
     Rev(KwInstall, OcrDigit, lo, hi) >>

install_patterns_flexible ==
  << Look(KwInstall, "skip", Digit, 1, 3, "date25"),
     Look(KwInstall, "skip", Digit, 1, 3, "six"),
     Fwd(FALSE, KwInstall, "colon", Digit, 1, 4),
     Fwd(FALSE, KwInstall, "colon", OcrDigit, 1, 4),
     Fwd(FALSE, KwInstall, "spaces1", OcrDigit, 1, 0),
     Fwd(FALSE, KwInstall, "none", OcrDigit, 1, 0) >>

\* minor_patterns of recheck_unknown.
recheck_minor_patterns ==
  << Fwd(FALSE, << MinorWords >>, "colon", OcrDigitIgnoreCase, 3, 4),
     Fwd(FALSE, << MinorWords >>, "spaces1", OcrDigitIgnoreCase, 3, 4),
     Fwd(FALSE, << MinorWords >>, "none", OcrDigitIgnoreCase, 3, 4) >>

minor_patterns_four_digit ==
  << Fwd(FALSE, << MinorWordsLong >>, "colon", OcrDigitIgnoreCase, 4, 4),
     Fwd(FALSE, << MinorWords >>, "spaces1", OcrDigitIgnoreCase, 4, 4),
     Fwd(FALSE, << MinorWords >>, "none", OcrDigitIgnoreCase, 4, 4),
     Rev(<< MinorWords >>, OcrDigitIgnoreCase, 4, 4) >>

minor_patterns_flexible ==
  << Fwd(FALSE, << MinorWordsFlexible >>, "colon", OcrDigitIgnoreCase, 1, 0),
     Fwd(FALSE, << MinorWords >>, "spaces1", OcrDigitIgnoreCase, 1, 0),
     Fwd(FALSE, << MinorWords >>, "none", OcrDigitIgnoreCase, 1, 0) >>

NotNone(x) == x # NoneVal

\* The groups that a list of patterns captures in a text, in the order of the
\* list: matches[0] of each pattern that matches.
Captured(patterns, text) ==
  SelectSeq([i \in 1..Len(patterns) |-> FindFirst(patterns[i], text)], NotNone)

-----------------------------------------------------------------------------
(* The OCR regions of an image and the two pattern cascades.               *)
(*                                                                         *)
(* A scene is what PILImage.open and reader.readtext give for one image:   *)
(* [width, height, results]; width = height = 0 when the image cannot be   *)
(* opened.  A result is [text, conf, min_x, max_x, min_y, max_y]: the      *)
(* confidence in percent and the bounding box, a rectangle parallel to     *)
(* the axes.                                                               *)

Region(text, conf, cx, cy) ==
  [text |-> text, conf |-> conf, min_x |-> cx - 5, max_x |-> cx + 5,
   min_y |-> cy - 5, max_y |-> cy + 5]

Scene(width, height, results) ==
  [width |-> width, height |-> height, results |-> results]

\* filtered_results: confidence >= threshold (0.15 in recheck_unknown, 0.2 in
\* organize_by_minor).
ConfidenceFilter(results, threshold) ==
  SelectSeq(results, LAMBDA r : r.conf >= threshold)

RemoveAt(seq, i) == SubSeq(seq, 1, i - 1) \o SubSeq(seq, i + 1, Len(seq))

\* key = (-max_y, min_x)
BelowLeftOf(a, b) ==
  a.max_y > b.max_y \/ (a.max_y = b.max_y /\ a.min_x < b.min_x)

\* bottom_left_texts.sort(key=lambda x: (-x[1], x[2])), a stable sort.
RECURSIVE PositionOrder(_)
PositionOrder(seq) ==
  IF seq = <<>> THEN <<>>
  ELSE LET i == MinOf({k \in 1..Len(seq) :
                         \A j \in 1..Len(seq) : ~BelowLeftOf(seq[j], seq[k])})
       IN  <<seq[i]>> \o PositionOrder(RemoveAt(seq, i))

\* filtered_results.sort(key=confidence, reverse=True), a stable sort.
RECURSIVE ConfidenceOrder(_)
ConfidenceOrder(seq) ==
  IF seq = <<>> THEN <<>>
  ELSE LET i == MinOf({k \in 1..Len(seq) :
                         \A j \in 1..Len(seq) : seq[j].conf <= seq[k].conf})
       IN  <<seq[i]>> \o ConfidenceOrder(RemoveAt(seq, i))

\* ' '.join of the texts of the regions.
RECURSIVE JoinTexts(_)
JoinTexts(regions) ==
  IF regions = <<>> THEN <<>>
  ELSE IF Len(regions) = 1 THEN regions[1].text
  ELSE regions[1].text \o <<Space>> \o JoinTexts(Tail(regions))

SizeKnown(scene) == scene.width > 0 /\ scene.height > 0

\* is_bottom_left of recheck_unknown: thresholds 0.6 * height, 0.6 * width.
RecheckIsBottomLeft(r, scene) ==
  /\ 10 * r.max_y >= 6 * scene.height
  /\ 10 * (r.min_y + r.max_y) >= 12 * scene.height
  /\ \/ 10 * (r.min_x + r.max_x) <= 12 * scene.width
     \/ 10 * r.min_x <= 6 * scene.width

\* The condition of organize_by_minor: thresholds 0.7 * height, 0.6 * width.
OrganizeIsBottomLeft(r, scene) ==
  /\ 10 * r.max_y >= 7 * scene.height
  /\ \/ 10 * (r.min_x + r.max_x) <= 12 * scene.width
     \/ 10 * r.min_x <= 6 * scene.width

AbsDiff(a, b) == IF a >= b THEN a - b ELSE b - a

\* distance <= min(img_width, img_height) * 0.2 between the centres of the
\* two bounding boxes, on the doubled coordinates.
Close(b, n, scene) ==
  LET dx == AbsDiff(b.min_x + b.max_x, n.min_x + n.max_x)
      dy == AbsDiff(b.min_y + b.max_y, n.min_y + n.max_y)
      m == Smaller(scene.width, scene.height)
  IN  25 * (dx * dx + dy * dy) <= 4 * m * m

\* re.search(r'U+BE44[U+CF58 U+CF55 U+CF58]', text)
HasBeacon(text) == \E i \in 1..Len(text) : KwAt(text, i, KwBeaconCok)

\* re.search(r'[0-9OoIl|]{n}', text)
HasRun(text, n) == \E i \in 1..Len(text) : RunLen(text, i, OcrDigit) >= n

\* The pairs of the two nested loops, in their order.
PairsOf(bs, ns) ==
  [k \in 1..(Len(bs) * Len(ns)) |->
     << bs[((k - 1) \div Len(ns)) + 1], ns[((k - 1) % Len(ns)) + 1] >>]

\* The pairs (beacon region, number region) of the bottom-left area whose
\* centres are close; n is the length of the digit run that makes a region
\* a number region.
ClosePairs(bottom_left, n, scene) ==
  SelectSeq(PairsOf(SelectSeq(bottom_left, LAMBDA r : HasBeacon(r.text)),
                    SelectSeq(bottom_left, LAMBDA r : HasRun(r.text, n))),
            LAMBDA pr : Close(pr[1], pr[2], scene))

\* The text after the first gong-jong, searched for the first run of 3 to
\* 4: the capture of the rule, or no capture.
GongjongCapture(text) ==
  LET hits == {i \in 1..Len(text) : KwAt(text, i, KwGongjong)}
  IN  IF hits = {} THEN <<>>
      ELSE SelectSeq(<< FirstRun(Drop(text, MinOf(hits) + 1), 3, 4) >>, NotNone)

CountDigits(s) == Cardinality({i \in 1..Len(s) : s[i] \in Digit})

\* The first number of the bottom-left text: the first of all_numbers that
\* has four digits, all_numbers[0] without such a number.
NumberCapture(text) ==
  LET all_numbers == AllNumbersFrom(text, 1)
      four_digit_numbers == SelectSeq(all_numbers, LAMBDA n : CountDigits(n) >= 4)
  IN  IF all_numbers = <<>> THEN <<>>
      ELSE IF four_digit_numbers # <<>> THEN << four_digit_numbers[1] >>
      ELSE << all_numbers[1] >>

\* A keyword of beacon_patterns_variants: a token of first, blanks if spaces,
\* a token of second.  The position after the keyword that starts at i, 0
\* when none starts there.
VariantEnd(text, i, v) ==
  IF text[i] \in v.first
  THEN LET k == IF v.spaces THEN SkipWhile(text, i + 1, {Space}) ELSE i + 1
       IN  IF k <= Len(text) /\ text[k] \in v.second THEN k + 1 ELSE 0
  ELSE 0

\* beacon_match: the run of lo to hi after the keyword, then the run that
\* ends before it.
BeaconMatchCaptures(text, v, lo, hi) ==
  LET hits == {i \in 1..Len(text) : VariantEnd(text, i, v) # 0}
  IN  IF hits = {} THEN <<>>
      ELSE SelectSeq(
             << FirstRun(Drop(text, VariantEnd(text, MinOf(hits), v) - 1), lo, hi),
                TrailingRun(Take(text, MinOf(hits) - 1), lo, hi) >>,
             NotNone)

VariantBeacon == [first |-> {"bi"}, spaces |-> FALSE, second |-> {"con", "cok"}]

beacon_patterns_variants ==
  << VariantBeacon,
     [first |-> {"bi", "bip"}, spaces |-> TRUE, second |-> {"con", "cok"}],
     [first |-> {"bi", "bip"}, spaces |-> FALSE, second |-> {"con", "cok"}] >>

\* The captures of a list of patterns over a list of texts, text by text.
RECURSIVE Over(_, _)
Over(texts, patterns) ==
  IF texts = <<>> THEN <<>>
  ELSE Captured(patterns, texts[1]) \o Over(Tail(texts), patterns)

\* ---- recheck_unknown.extract_minor_value ----

RecheckBottomLeft(scene) ==
  LET filtered_results == ConfidenceFilter(scene.results, 15)
  IN  IF SizeKnown(scene) /\ filtered_results # <<>>
      THEN PositionOrder(SelectSeq(filtered_results,
                                   LAMBDA r : RecheckIsBottomLeft(r, scene)))
      ELSE <<>>

\* simple_match on combined_text, for the close pairs in their order.
RecheckDistanceCaptures(scene) ==
  LET close == ClosePairs(RecheckBottomLeft(scene), 3, scene)
  IN  SelectSeq(
        [k \in 1..Len(close) |->
           FindFirst(Fwd(FALSE, KwBeaconCok, "spaces1", OcrDigitIgnoreCase, 4, 4),
                     close[k][1].text \o <<Space>> \o close[k][2].text)],
        NotNone)

\* The search of a bottom-left text up to beacon_patterns_variants.
RecheckBottomLeftCaptures(text) ==
  GongjongCapture(text)
  \o NumberCapture(text)
  \o Captured(recheck_beacon_patterns_four_digit, text)
  \o BeaconMatchCaptures(text, beacon_patterns_variants[1], 3, 4)
  \o BeaconMatchCaptures(text, beacon_patterns_variants[2], 3, 4)
  \o BeaconMatchCaptures(text, beacon_patterns_variants[3], 3, 4)

\* The search of the whole image up to the read of beacon_patterns_flexible.
RecheckWholeImageCaptures(full_text) ==
  GongjongCapture(full_text)
  \o Captured(recheck_beacon_patterns_four_digit, full_text)

\* From beacon_patterns_flexible on: bottom-left text only.
RecheckLateCaptures(text) ==
  Captured(beacon_patterns_flexible, text)
  \o Captured(InstallPatterns(3, 4), text)
  \o Captured(recheck_minor_patterns, text)

\* What the engine and the cascade of recheck_unknown yield for a scene.
RecheckOcr(scene) ==
  LET bottom_left_text == JoinTexts(RecheckBottomLeft(scene))
      full_text == JoinTexts(ConfidenceFilter(scene.results, 15))
  IN  IF bottom_left_text # <<>>
      THEN OcrText(TRUE,
                   RecheckDistanceCaptures(scene)
                     \o RecheckBottomLeftCaptures(bottom_left_text),
                   RecheckLateCaptures(bottom_left_text))
      ELSE OcrText(FALSE,
                   RecheckDistanceCaptures(scene)
                     \o RecheckWholeImageCaptures(full_text),
                   <<>>)

\* ---- organize_by_minor.extract_minor_value ----

OrganizeBottomLeft(scene) ==
  LET filtered_results == ConfidenceFilter(scene.results, 20)
  IN  IF SizeKnown(scene) /\ filtered_results # <<>>
      THEN PositionOrder(SelectSeq(filtered_results,
                                   LAMBDA r : OrganizeIsBottomLeft(r, scene)))
      ELSE <<>>

\* search_texts: bottom-left text, high-confidence text, all text; the first
\* two only when not empty.
OrganizeSearchTexts(scene) ==
  LET filtered_results == ConfidenceOrder(ConfidenceFilter(scene.results, 20))
      bottom_left_text == JoinTexts(OrganizeBottomLeft(scene))
      full_text == JoinTexts(filtered_results)
      high_confidence_text ==
        JoinTexts(SelectSeq(filtered_results, LAMBDA r : r.conf >= 50))
  IN  (IF bottom_left_text # <<>> THEN << bottom_left_text >> ELSE <<>>)
      \o (IF high_confidence_text # <<>> THEN << high_confidence_text >> ELSE <<>>)
      \o << full_text >>

\* A cascade that is ordered by search text first: every list of patterns on
\* one search text before any list on the next.
OrganizeCaptures_text_first(scene) ==
  LET bottom_left_text == JoinTexts(OrganizeBottomLeft(scene))
      search_texts == OrganizeSearchTexts(scene)
      OnText(t) ==
        Captured(organize_beacon_patterns_four_digit, t)
        \o (IF t = bottom_left_text /\ t # <<>>
            THEN BeaconMatchCaptures(t, VariantBeacon, 4, 4) ELSE <<>>)
        \o Captured(beacon_patterns_flexible, t)
        \o Captured(InstallPatterns(4, 4), t)
        \o Captured(install_patterns_flexible, t)
        \o Captured(minor_patterns_four_digit, t)
        \o Captured(minor_patterns_flexible, t)
  IN  OnText(search_texts[1])
      \o (IF Len(search_texts) >= 2 THEN OnText(search_texts[2]) ELSE <<>>)
      \o (IF Len(search_texts) >= 3 THEN OnText(search_texts[3]) ELSE <<>>)

\* The captures of the cascade in the order in which it reaches them.
OrganizeCaptures(scene) ==
  LET bottom_left_text == JoinTexts(OrganizeBottomLeft(scene))
      search_texts == OrganizeSearchTexts(scene)
      others == SelectSeq(search_texts, LAMBDA t : t # bottom_left_text)
  IN  (IF bottom_left_text # <<>>
       THEN Captured(organize_beacon_patterns_four_digit, bottom_left_text)
            \o BeaconMatchCaptures(bottom_left_text, VariantBeacon, 4, 4)
       ELSE <<>>)
      \o Over(others, organize_beacon_patterns_four_digit)
      \o (IF bottom_left_text # <<>>
          THEN Captured(beacon_patterns_flexible, bottom_left_text) ELSE <<>>)
      \o Over(others, beacon_patterns_flexible)
      \o Over(search_texts, InstallPatterns(4, 4))
      \o Over(search_texts, install_patterns_flexible)
      \o Over(search_texts, minor_patterns_four_digit)
      \o Over(search_texts, minor_patterns_flexible)

\* The OCR part of extract_minor_value of organize_by_minor, inside its try
\* block.  The loop over the close pairs reads beacon_patterns_four_digit
\* before its assignment: on the first close pair the UnboundLocalError is
\* caught by the handler of the function, which returns None.
OrganizeOcrPart(scene) ==
  IF ClosePairs(OrganizeBottomLeft(scene), 4, scene) # <<>> THEN NoneVal
  ELSE PatternCascade(OrganizeCaptures(scene))

organize_extract_minor_value(filename, scene) ==
  LET filename_minor == extract_minor_from_filename(filename)
  IN  IF filename_minor # NoneVal /\ Len(filename_minor) < 5
      THEN Format04d(ToInt(filename_minor))
      ELSE OrganizeOcrPart(scene)

\* extract_minor_value of recheck_unknown on a scene.
recheck_extract_minor_value(filename, scene) ==
  extract_minor_value(filename, RecheckOcr(scene))

-----------------------------------------------------------------------------
(* Paths and the output directory.                                         *)
(*                                                                         *)
(* A directory of output is a sequence <<"Unknown">> or <<"Minor_">> \o v; *)
(* a file is a record [dir, name, img]: img is the source image whose      *)
(* content the file holds.                                                 *)

UnknownDir == <<"Unknown">>

MinorDir(minor_value) == <<"Minor_">> \o minor_value

DotPositions(name) == {i \in 1..Len(name) : name[i] = "."}

\* Path.suffix: from the last dot, unless the name starts or ends with it.
Suffix(name) ==
  IF DotPositions(name) # {}
     /\ MaxOf(DotPositions(name)) > 1
     /\ MaxOf(DotPositions(name)) < Len(name)
  THEN Drop(name, MaxOf(DotPositions(name)) - 1)
  ELSE <<>>

\* Path.stem
Stem(name) == Take(name, Len(name) - Len(Suffix(name)))

\* f.suffix in image_extensions
IsImage(name) == \E e \in ImageExtStrings : Suffix(name) = <<".">> \o e

\* A listing that finds no name in any directory.
NamesIn_of_nothing(fs, d) == {}

NamesIn(fs, d) == {f.name : f \in {g \in fs : g.dir = d}}

\* f"{base_name}_dup{counter}{extension}"
DupName(name, counter) ==
  Stem(name) \o <<"_", "d", "u", "p">> \o ToStr(counter) \o Suffix(name)

\* A target that is the name itself whether or not it is free.
TargetName_no_dup(fs, d, name) == name

\* The collision loop: the name itself when it is free in the directory, else
\* the first of name_dup1, name_dup2, ... that is free.
TargetName(fs, d, name) ==
  IF name \notin NamesIn(fs, d) THEN name
  ELSE DupName(name,
         MinOf({c \in 1..(Cardinality(NamesIn(fs, d)) + 1) :
                   DupName(name, c) \notin NamesIn(fs, d)}))

\* Writing a file at a path replaces whatever file the path held.
WriteAt(fs, d, name, img) ==
  {g \in fs : ~(g.dir = d /\ g.name = name)}
    \cup {[dir |-> d, name |-> name, img |-> img]}

\* A copy that is written under the first free _dup name when the name is
\* taken.
CopyInto_under_free_name(fs, d, target, img) ==
  WriteAt(fs, d, TargetName(fs, d, target), img)

\* shutil.copy2(source/name, output/d/target)
CopyInto(fs, d, target, img) == WriteAt(fs, d, target, img)

\* A move that leaves the original where it was.
MoveFile_keeps_original(fs, f, d, target) == WriteAt(fs, d, target, f.img)

\* shutil.move(f, output/d/target)
MoveFile(fs, f, d, target) == WriteAt(fs \ {f}, d, target, f.img)

Rank(c) == CHOOSE i \in 1..Len(CharOrder) : CharOrder[i] = c

RECURSIVE LessStr(_, _)
LessStr(s, t) ==
  IF t = <<>> THEN FALSE
  ELSE IF s = <<>> THEN TRUE
  ELSE IF s[1] = t[1] THEN LessStr(Tail(s), Tail(t))
  ELSE Rank(s[1]) < Rank(t[1])

\* sorted(...) of a set of names
RECURSIVE SortedNames(_)
\* A listing that keeps only the first name in order.
SortedNames_first_only(S) ==
  IF S = {} THEN <<>>
  ELSE <<CHOOSE x \in S : \A y \in S \ {x} : LessStr(x, y)>>

SortedNames(S) ==
  IF S = {} THEN <<>>
  ELSE LET m == CHOOSE x \in S : \A y \in S \ {x} : LessStr(x, y)
       IN  <<m>> \o SortedNames(S \ {m})

-----------------------------------------------------------------------------
(* State.                                                                  *)

VARIABLES
  source,             \* names of the files of the source directory
  ocr,                \* per source image, what the OCR part yields for it
  dirs,               \* directories that exist under output
  files,              \* files under output
  pc,                 \* idle | classify | classify_unknown | verify | ocr
  image_files,        \* organize_files: source files still to classify
  unknown_files,      \* organize_files: files to copy into Unknown
  all_output_files,   \* recheck: files outside Unknown still to verify
  recheck_files,      \* recheck: the sorted listing of Unknown (unknown_files)
  idx,                \* recheck: position in recheck_files
  moved_by_filename,  \* recheck: moves of the filename re-verification
  moved_by_ocr,       \* recheck: moves of the OCR retry
  still_unknown,      \* recheck: names left in Unknown by the OCR retry
  history,            \* completed operations, oldest first
  placed,             \* the last placement: directory, name asked, name written
  fn_call,            \* pure-function check: the call
  fn_result,          \* pure-function check: its result
  src_dir,            \* entry points: source is missing | empty | images
  out_dir,            \* entry points: output is missing | empty | images
  cli,                \* the last script run on its own, and its exit code
  run_pc,             \* run_all_steps.main: where it stands
  step_num,           \* run_all_steps.main: the step of the loop
  runs,               \* run_all_steps.main: the steps started, with exit codes
  all_done,           \* run_all_steps.main: the final message was printed
  files_at_start,     \* recheck: the files under output when the run started
  relocated,          \* recheck: per file of the scan, the file it is now
  files_at_classify,  \* organize_files: the files under output at its start
  procs               \* concurrent reconcile runs: per process, where it stands

vars ==
  << source, ocr, dirs, files, pc, image_files, unknown_files,
     all_output_files, recheck_files, idx, moved_by_filename, moved_by_ocr,
     still_unknown, history, placed, fn_call, fn_result, src_dir, out_dir,
     cli, run_pc, step_num, runs, all_done, files_at_start, relocated,
     files_at_classify, procs >>

locals ==
  << image_files, unknown_files, all_output_files, recheck_files, idx,
     moved_by_filename, moved_by_ocr, still_unknown >>

fnvars == << fn_call, fn_result >>

runvars == << src_dir, out_dir, cli, run_pc, step_num, runs, all_done >>

\* What a run of recheck_unknown_files or of organize_files started from, kept
\* for the properties.
scanvars == << files_at_start, relocated, files_at_classify, procs >>

\* No script has been run on its own yet.
NoCli == [step |-> 0, src |-> "missing", out |-> "missing", code |-> 0]

\* The entry-point variables before anything has run.
RunIdle ==
  /\ cli = NoCli
  /\ run_pc = "idle"
  /\ step_num = 1
  /\ runs = <<>>
  /\ all_done = FALSE

\* Bounds of the model.
MaxSource == 2

MaxOps == 4

MaxExternal == 1

\* Source files the model draws from.
Date9 == <<"2", "5", "1", "1", "0", "4", "1", "3", "0">>

DotJpg == <<".", "j", "p", "g">>

SrcInstall10 == <<"seol", "chi", "1", "0">> \o Date9 \o DotJpg

SrcBeacon10 == <<"bi", "con", "1", "0">> \o Date9 \o <<".", "p", "n", "g">>

SrcInstall0 == <<"seol", "chi", "0">> \o Date9 \o DotJpg

SrcInstall12345 == <<"seol", "chi", "1", "2", "3", "4", "5">> \o Date9 \o DotJpg

SrcPlain == <<"x">> \o DotJpg

Catalogue ==
  {SrcInstall10, SrcBeacon10, SrcInstall0, SrcInstall12345, SrcPlain}

OcrOutcomes ==
  { OcrRaise,
    OcrText(TRUE, <<>>, <<>>),
    OcrText(TRUE, << <<"0", "3", "0", "7">> >>, <<>>),
    OcrText(TRUE, << <<"O", "O", "O", "O">> >>, << <<"1", "0">> >>),
    OcrText(FALSE, <<>>, << <<"0", "3", "0", "7">> >>) }

\* extract_minor_from_filename tabulated over the catalogue.
CatalogueCandidate == [n \in Catalogue |-> extract_minor_from_filename(n)]

FilenameCandidate(name) ==
  IF name \in Catalogue THEN CatalogueCandidate[name]
  ELSE extract_minor_from_filename(name)

\* The filename decides without OCR: a candidate of fewer than 5 digits.
UsableCandidate(name) ==
  /\ FilenameCandidate(name) # NoneVal
  /\ Len(FilenameCandidate(name)) < 5

\* A candidate of 5 or more digits: the filename rule violation.
LongCandidate(name) ==
  /\ FilenameCandidate(name) # NoneVal
  /\ Len(FilenameCandidate(name)) >= 5

NoPlacement ==
  [by |-> "none", dir |-> <<>>, want |-> <<>>, got |-> <<>>, had |-> {},
   img |-> <<>>]

NoCall ==
  [fn |-> "none", name |-> <<>>, kw |-> <<>>, ident |-> <<>>, date |-> <<>>,
   raw |-> <<>>, o |-> OcrText(TRUE, <<>>, <<>>)]

Pending == <<"pending">>

Init ==
  /\ source \in {S \in SUBSET Catalogue :
                   Cardinality(S) >= 1 /\ Cardinality(S) <= MaxSource}
  /\ ocr \in {o \in [source -> OcrOutcomes] :
                \A n \in source : UsableCandidate(n) => o[n] = OcrText(TRUE, <<>>, <<>>)}
  /\ dirs = {}
  /\ files = {}
  /\ pc = "idle"
  /\ image_files = <<>>
  /\ unknown_files = <<>>
  /\ all_output_files = {}
  /\ recheck_files = <<>>
  /\ idx = 1
  /\ moved_by_filename = 0
  /\ moved_by_ocr = 0
  /\ still_unknown = <<>>
  /\ history = <<>>
  /\ placed = NoPlacement
  /\ fn_call = NoCall
  /\ fn_result = Pending
  /\ src_dir = "images"
  /\ out_dir = "missing"
  /\ RunIdle
  /\ files_at_start = {}
  /\ relocated = << >>
  /\ files_at_classify = {}
  /\ procs = << >>

Done(op) ==
  [op |-> op, by_name |-> 0, by_ocr |-> 0]

\* A placement: the step that made it, the directory, the name of the file
\* placed, the name written, the names the directory held, the image.
Placement(by, d, name, target, img) ==
  [by |-> by, dir |-> d, want |-> name, got |-> target,
   had |-> NamesIn(files, d), img |-> img]

-----------------------------------------------------------------------------
(* organize_files (classify).                                              *)

\* The filename rule without the limit of 4 digits.
FilenameTarget_no_limit(name) ==
  IF extract_minor_from_filename(name) # NoneVal
  THEN MinorDir(Format04d(ToInt(extract_minor_from_filename(name))))
  ELSE UnknownDir

\* Where the filename rule sends a source file.
FilenameTarget(name) ==
  IF UsableCandidate(name)
  THEN MinorDir(Format04d(ToInt(extract_minor_from_filename(name))))
  ELSE UnknownDir

ClassifyStart ==
  /\ pc = "idle"
  /\ Len(history) < MaxOps
  /\ LET unknown_existing_files ==
           IF UnknownDir \in dirs THEN NamesIn(files, UnknownDir) ELSE {}
         todo == SortedNames({n \in source :
                     IsImage(n) /\ n \notin unknown_existing_files})
     IN  IF todo = <<>>
         THEN /\ history' = Append(history, Done("classify"))
              /\ UNCHANGED << pc, image_files, unknown_files >>
         ELSE /\ image_files' = todo
              /\ unknown_files' = <<>>
              /\ pc' = "classify"
              /\ UNCHANGED history
  /\ files_at_classify' = files
  /\ UNCHANGED << source, ocr, dirs, files, all_output_files, recheck_files,
                  idx, moved_by_filename, moved_by_ocr, still_unknown, placed,
                  fnvars, runvars, files_at_start, relocated, procs >>

ClassifyFile ==
  /\ pc = "classify"
  /\ image_files # <<>>
  /\ LET name == Head(image_files)
         target_folder == FilenameTarget(name)
     IN  IF target_folder # UnknownDir
         THEN /\ dirs' = dirs \cup {target_folder}
              /\ files' = CopyInto(files, target_folder, name, name)
              /\ placed' = Placement("classify", target_folder, name, name, name)
              /\ UNCHANGED unknown_files
         ELSE /\ unknown_files' = Append(unknown_files, name)
              /\ UNCHANGED << dirs, files, placed >>
  /\ image_files' = Tail(image_files)
  /\ pc' = IF Tail(image_files) = <<>> THEN "classify_unknown" ELSE "classify"
  /\ UNCHANGED << source, ocr, all_output_files, recheck_files, idx,
                  moved_by_filename, moved_by_ocr, still_unknown, history,
                  fnvars, runvars, scanvars >>

ClassifyUnknownFile ==
  /\ pc = "classify_unknown"
  /\ unknown_files # <<>>
  /\ LET name == Head(unknown_files)
         target == TargetName(files, UnknownDir, name)
     IN  /\ dirs' = dirs \cup {UnknownDir}
         /\ files' = CopyInto(files, UnknownDir, target, name)
         /\ placed' = Placement("classify", UnknownDir, name, target, name)
  /\ unknown_files' = Tail(unknown_files)
  /\ UNCHANGED << source, ocr, pc, image_files, all_output_files,
                  recheck_files, idx, moved_by_filename, moved_by_ocr,
                  still_unknown, history, fnvars, runvars, scanvars >>

ClassifyDone ==
  /\ pc = "classify_unknown"
  /\ unknown_files = <<>>
  /\ pc' = "idle"
  /\ history' = Append(history, Done("classify"))
  /\ UNCHANGED << source, ocr, dirs, files, locals, placed, fnvars, runvars, scanvars >>

-----------------------------------------------------------------------------
(* recheck_unknown_files (reconcile).                                      *)

\* verify_file_location that returns the candidate as the filename has it.
verify_file_location_unpadded(name, current_minor_value) ==
  LET filename_minor == extract_minor_from_filename(name)
  IN  IF filename_minor # NoneVal
      THEN IF Len(filename_minor) >= 5 THEN NoneVal
           ELSE IF current_minor_value # Format04d(ToInt(filename_minor))
                THEN filename_minor
                ELSE NoneVal
      ELSE NoneVal

\* verify_file_location that compares the partition with the candidate as
\* the filename has it.
verify_file_location_compares_raw(name, current_minor_value) ==
  LET filename_minor == extract_minor_from_filename(name)
  IN  IF filename_minor # NoneVal
      THEN IF Len(filename_minor) >= 5 THEN NoneVal
           ELSE IF current_minor_value # filename_minor
                THEN Format04d(ToInt(filename_minor))
                ELSE NoneVal
      ELSE NoneVal

verify_file_location(name, current_minor_value) ==
  LET filename_minor == extract_minor_from_filename(name)
  IN  IF filename_minor # NoneVal
      THEN IF Len(filename_minor) >= 5 THEN NoneVal
           ELSE IF current_minor_value # Format04d(ToInt(filename_minor))
                THEN Format04d(ToInt(filename_minor))
                ELSE NoneVal
      ELSE NoneVal

\* current_minor of a file of the scan: the folder name without "Minor_".
CurrentMinor(d) == IF Head(d) = "Minor_" THEN Tail(d) ELSE NoneVal

\* The partition the filename re-verification moves a file to, or NoneVal
\* when it leaves the file where it is.
VerifyTarget(f) ==
  IF LongCandidate(f.name) THEN UnknownDir
  ELSE IF verify_file_location(f.name, CurrentMinor(f.dir)) # NoneVal
       THEN MinorDir(verify_file_location(f.name, CurrentMinor(f.dir)))
       ELSE NoneVal

RecheckStart ==
  /\ pc = "idle"
  /\ Len(history) < MaxOps
  /\ IF {f \in files : IsImage(f.name)} = {}
     THEN /\ history' = Append(history, Done("reconcile"))
          /\ relocated' = << >>
          /\ UNCHANGED << pc, locals >>
     ELSE /\ all_output_files' =
                {f \in files : f.dir # UnknownDir /\ IsImage(f.name)}
          /\ relocated' =
                [f \in {g \in files : g.dir # UnknownDir /\ IsImage(g.name)}
                   |-> f]
          /\ moved_by_filename' = 0
          /\ moved_by_ocr' = 0
          /\ still_unknown' = <<>>
          /\ recheck_files' = <<>>
          /\ idx' = 1
          /\ pc' = "verify"
          /\ UNCHANGED << image_files, unknown_files, history >>
  /\ files_at_start' = files
  /\ UNCHANGED << source, ocr, dirs, files, placed, fnvars, runvars,
                  files_at_classify, procs >>

VerifyFile ==
  /\ pc = "verify"
  /\ \E f \in all_output_files :
       /\ all_output_files' = all_output_files \ {f}
       /\ LET d == VerifyTarget(f)
              target == TargetName(files, d, f.name)
          IN  IF d = NoneVal
              THEN UNCHANGED << dirs, files, moved_by_filename, placed,
                                relocated >>
              ELSE /\ dirs' = dirs \cup {d}
                   /\ IF f \notin files
                      THEN UNCHANGED << files, moved_by_filename, placed,
                                        relocated >>
                      ELSE /\ files' = MoveFile(files, f, d, target)
                           /\ relocated' =
                                [relocated EXCEPT
                                   ![f] = [dir |-> d, name |-> target,
                                           img |-> f.img]]
                           /\ placed' = Placement("verify", d, f.name, target, f.img)
                           /\ moved_by_filename' = moved_by_filename + 1
  /\ UNCHANGED << source, ocr, pc, image_files, unknown_files, recheck_files,
                  idx, moved_by_ocr, still_unknown, history, fnvars, runvars,
                  files_at_start, files_at_classify, procs >>

RecheckReturn ==
  /\ pc' = "idle"
  /\ history' = Append(history, [op |-> "reconcile",
                                 by_name |-> moved_by_filename,
                                 by_ocr |-> moved_by_ocr])

OcrStart ==
  /\ pc = "verify"
  /\ all_output_files = {}
  /\ LET listing == {f \in files : f.dir = UnknownDir /\ IsImage(f.name)}
         names == SortedNames({f.name : f \in listing})
     IN  IF UnknownDir \notin dirs \/ listing = {}
         THEN /\ RecheckReturn
              /\ UNCHANGED recheck_files
         ELSE /\ recheck_files' =
                   [i \in 1..Len(names) |->
                      CHOOSE f \in listing : f.name = names[i]]
              /\ pc' = "ocr"
              /\ UNCHANGED history
  /\ UNCHANGED << source, ocr, dirs, files, image_files, unknown_files,
                  all_output_files, idx, moved_by_filename, moved_by_ocr,
                  still_unknown, placed, fnvars, runvars, scanvars >>

OcrFile ==
  /\ pc = "ocr"
  /\ idx <= Len(recheck_files)
  /\ LET f == recheck_files[idx]
         minor_value == extract_minor_value(f.name, ocr[f.img])
         d == MinorDir(Format04d(ToInt(minor_value)))
         target == TargetName(files, d, f.name)
     IN  IF minor_value # NoneVal
         THEN /\ dirs' = dirs \cup {d}
              /\ IF f \notin files
                 THEN /\ still_unknown' = Append(still_unknown, f.name)
                      /\ UNCHANGED << files, moved_by_ocr, placed >>
                 ELSE /\ files' = MoveFile(files, f, d, target)
                      /\ placed' = Placement("ocr", d, f.name, target, f.img)
                      /\ moved_by_ocr' = moved_by_ocr + 1
                      /\ UNCHANGED still_unknown
         ELSE /\ still_unknown' = Append(still_unknown, f.name)
              /\ UNCHANGED << dirs, files, moved_by_ocr, placed >>
  /\ idx' = idx + 1
  /\ UNCHANGED << source, ocr, pc, image_files, unknown_files,
                  all_output_files, recheck_files, moved_by_filename, history,
                  fnvars, runvars, scanvars >>

RecheckDone ==
  /\ pc = "ocr"
  /\ idx > Len(recheck_files)
  /\ RecheckReturn
  /\ UNCHANGED << source, ocr, dirs, files, locals, placed, fnvars, runvars, scanvars >>

-----------------------------------------------------------------------------
(* The environment: between two runs somebody moves a file of output into  *)
(* another partition, under its own name.  This is how a file comes to sit *)
(* in a partition that its filename contradicts.                           *)

Externals == Cardinality({i \in 1..Len(history) : history[i].op = "external"})

ExternalMove ==
  /\ pc = "idle"
  /\ Len(history) < MaxOps
  /\ Externals < MaxExternal
  /\ \E f \in files, d \in dirs \cup {UnknownDir} :
       /\ d # f.dir
       /\ f.name \notin NamesIn(files, d)
       /\ dirs' = dirs \cup {d}
       /\ files' = MoveFile(files, f, d, f.name)
  /\ history' = Append(history, Done("external"))
  /\ UNCHANGED << source, ocr, pc, locals, placed, fnvars, runvars, scanvars >>

Next ==
  \/ ClassifyStart
  \/ ClassifyFile
  \/ ClassifyUnknownFile
  \/ ClassifyDone
  \/ RecheckStart
  \/ VerifyFile
  \/ OcrStart
  \/ OcrFile
  \/ RecheckDone
  \/ ExternalMove

Spec == Init /\ [][Next]_vars

-----------------------------------------------------------------------------
(* The pure functions on their own: one call, drawn from bounded inputs.   *)

\* Bounds of the inputs.
MaxIdLen == 5

MaxRawLen == 5

Strings(A, n) == UNION {[1..k -> A] : k \in 0..n}

Keywords == { <<"seol", "chi">>, <<"bi", "con">>, <<"bi", "con", "seol", "chi">> }

\* The documented date forms: 6 digits, 8 digits, 9 digits (25...).
Dates ==
  { <<"2", "5", "1", "1", "0", "4">>,
    <<"5", "1", "1", "0", "4", "1", "3", "0">>,
    Date9 }

\* A filename call: [prefix]<keyword><identifier><date>.<ext>, each part
\* possibly missing.
ParseCalls ==
  { [fn |-> "parse",
     name |-> pre \o kw \o id \o date \o ext,
     kw |-> kw, ident |-> id, date |-> date,
     raw |-> <<>>, o |-> OcrText(TRUE, <<>>, <<>>)] :
       pre \in {<<>>, <<"x">>},
       kw \in Keywords \cup {<<>>},
       id \in Strings({"0", "1", "2"}, MaxIdLen),
       date \in Dates \cup {<<>>},
       ext \in {DotJpg, <<".", "P", "N", "G">>, <<".", "J", "p", "g">>} }

NormalizeCalls ==
  { [fn |-> "normalize", name |-> <<>>, kw |-> <<>>, ident |-> <<>>,
     date |-> <<>>, raw |-> r, o |-> OcrText(TRUE, <<>>, <<>>)] :
       r \in Strings({"O", "o", "1", "9", "x"}, MaxRawLen)
             \cup { <<"1", "2", "3", "4", "5">>, <<"0", "0", "0", "0">> } }

RawCaptures ==
  { <<"O", "O", "O", "O">>, <<"0", "0", "0", "0">>, <<"0", "3", "0", "7">>,
    <<"3", "0", "7">>, <<"I", "l", "|">> }

ExtractCalls ==
  { [fn |-> "extract", name |-> n, kw |-> <<>>, ident |-> <<>>,
     date |-> <<>>, raw |-> <<>>, o |-> o] :
       n \in Catalogue \cup {SrcPlain \o <<"_", "d", "u", "p", "1">>},
       o \in {OcrRaise}
               \cup { OcrText(b, c, l) : b \in BOOLEAN,
                                         c \in Strings(RawCaptures, 1),
                                         l \in Strings(RawCaptures, 1) } }

\* Bound of the scenes: the number of OCR regions of an image.
MaxRegions == 2

\* The texts of the regions.
TextBeacon0307 == <<"bi", "con", " ", "0", "3", "0", "7">>

Text0307Beacon == <<"0", "3", "0", "7", "bi", "con">>

TextBeacon12 == <<"bi", "con", " ", "1", "2">>

TextBeaconOOOO == <<"bi", "con", " ", "O", "O", "O", "O">>

TextInstall0307 == <<"seol", "chi", " ", "0", "3", "0", "7">>

TextMinor0019 == <<"Minor", " ", "0", "0", "1", "9">>

TextGongjong1234 == <<"gong", "jong", " ", "1", "2", "3", "4">>

\* The regions the scenes are made of, in an image of 100 x 100: the centres
\* (20, 90) and (20, 70) are 20 apart, (50, 90) is farther from both, and
\* (20, 20) is outside the bottom-left area.
RegionCatalogue ==
  { Region(TextBeacon0307, 90, 20, 90),
    Region(TextBeacon0307, 10, 20, 90),
    Region(TextBeacon0307, 90, 20, 20),
    Region(<<"bi", "con">>, 90, 20, 90),
    Region(<<"0", "3", "0", "7">>, 90, 20, 70),
    Region(<<"1", "2", "3", "4">>, 90, 50, 90),
    Region(<<"1", "2", "3", "4">>, 90, 20, 90),
    Region(Text0307Beacon, 90, 20, 70),
    Region(TextBeacon12, 30, 20, 20),
    Region(TextBeacon12, 30, 50, 90),
    Region(TextBeaconOOOO, 90, 20, 20),
    Region(TextInstall0307, 30, 20, 20),
    Region(TextInstall0307, 30, 50, 90),
    Region(TextMinor0019, 30, 50, 90),
    Region(TextGongjong1234, 90, 20, 20) }

Scenes ==
  { Scene(size, size, results) :
      size \in {0, 100}, results \in Strings(RegionCatalogue, MaxRegions) }

\* A call of one of the two extract_minor_value on an image whose filename
\* holds no candidate.
SceneCalls ==
  { [fn |-> f, name |-> SrcPlain, kw |-> <<>>, ident |-> <<>>,
     date |-> <<>>, raw |-> <<>>, o |-> s] :
       f \in {"organize_ocr", "recheck_ocr"}, s \in Scenes }

FnInit ==
  /\ source = {}
  /\ ocr = << >>
  /\ dirs = {}
  /\ files = {}
  /\ pc = "idle"
  /\ image_files = <<>>
  /\ unknown_files = <<>>
  /\ all_output_files = {}
  /\ recheck_files = <<>>
  /\ idx = 1
  /\ moved_by_filename = 0
  /\ moved_by_ocr = 0
  /\ still_unknown = <<>>
  /\ history = <<>>
  /\ placed = NoPlacement
  /\ \/ fn_call \in ParseCalls
     \/ fn_call \in NormalizeCalls
     \/ fn_call \in ExtractCalls
     \/ fn_call \in SceneCalls
  /\ fn_result = Pending
  /\ src_dir = "images"
  /\ out_dir = "missing"
  /\ RunIdle
  /\ files_at_start = {}
  /\ relocated = << >>
  /\ files_at_classify = {}
  /\ procs = << >>

FnFrame ==
  UNCHANGED << source, ocr, dirs, files, pc, locals, history, placed, fn_call,
               runvars, scanvars >>

CallParse ==
  /\ fn_call.fn = "parse"
  /\ fn_result = Pending
  /\ fn_result' = extract_minor_from_filename(fn_call.name)
  /\ FnFrame

CallNormalize ==
  /\ fn_call.fn = "normalize"
  /\ fn_result = Pending
  /\ fn_result' = normalize_four_digit_minor(fn_call.raw)
  /\ FnFrame

CallExtract ==
  /\ fn_call.fn = "extract"
  /\ fn_result = Pending
  /\ fn_result' = extract_minor_value(fn_call.name, fn_call.o)
  /\ FnFrame

CallOrganizeOcr ==
  /\ fn_call.fn = "organize_ocr"
  /\ fn_result = Pending
  /\ fn_result' = organize_extract_minor_value(fn_call.name, fn_call.o)
  /\ FnFrame

CallRecheckOcr ==
  /\ fn_call.fn = "recheck_ocr"
  /\ fn_result = Pending
  /\ fn_result' = recheck_extract_minor_value(fn_call.name, fn_call.o)
  /\ FnFrame

FnNext ==
  \/ CallParse
  \/ CallNormalize
  \/ CallExtract
  \/ CallOrganizeOcr
  \/ CallRecheckOcr

FnSpec == FnInit /\ [][FnNext]_vars

-----------------------------------------------------------------------------
(* The command-line entry points and run_all_steps.main.                   *)
(*                                                                         *)
(* A directory is "missing", "empty" (it exists and holds no image) or     *)
(* "images".  Scripts 1 to 4 are organize_by_minor.py, recheck_unknown.py, *)
(* check_folder_structure.py and create_pdf.py.  An exception that leaves  *)
(* a script uncaught ends the interpreter with exit status 1.              *)

DirStates == {"missing", "empty", "images"}

Steps == 1..4

\* Exit status of script k.
\*  1: OUTPUT_DIR.mkdir, then SOURCE_DIR.iterdir() raises FileNotFoundError
\*     when source is missing;
\*  2: count_image_files gives 0 for a missing directory; output_count == 0
\*     returns; otherwise output_count/source_count raises ZeroDivisionError
\*     when source_count is 0;
\*  3, 4: OUTPUT_DIR.iterdir() raises FileNotFoundError when output is
\*     missing.
ScriptExit(k, src, out) ==
  CASE k = 1 -> IF src = "missing" THEN 1 ELSE 0
    [] k = 2 -> IF out # "images" THEN 0
                ELSE IF src # "images" THEN 1 ELSE 0
    [] OTHER -> IF out = "missing" THEN 1 ELSE 0

\* What script k leaves of output: classify creates it, and fills it when
\* source holds images; no script removes the last image of output.
OutputAfter(k, src, out) ==
  IF k # 1 THEN out
  ELSE IF src = "images" THEN "images"
  ELSE IF out = "missing" THEN "empty"
  ELSE out

RunRecord(k) ==
  [step |-> k, src |-> src_dir, out |-> out_dir,
   code |-> ScriptExit(k, src_dir, out_dir)]

PipelineFrame ==
  UNCHANGED << source, ocr, dirs, files, pc, locals, history, placed, fnvars,
               scanvars >>

RunInit ==
  /\ source = {}
  /\ ocr = << >>
  /\ dirs = {}
  /\ files = {}
  /\ pc = "idle"
  /\ image_files = <<>>
  /\ unknown_files = <<>>
  /\ all_output_files = {}
  /\ recheck_files = <<>>
  /\ idx = 1
  /\ moved_by_filename = 0
  /\ moved_by_ocr = 0
  /\ still_unknown = <<>>
  /\ history = <<>>
  /\ placed = NoPlacement
  /\ fn_call = NoCall
  /\ fn_result = Pending
  /\ src_dir \in DirStates
  /\ out_dir \in DirStates
  /\ RunIdle
  /\ files_at_start = {}
  /\ relocated = << >>
  /\ files_at_classify = {}
  /\ procs = << >>

\* python3 <script k>, on its own, before run_all_steps is started.
CliRun ==
  /\ run_pc = "idle"
  /\ \E k \in Steps :
       /\ cli' = RunRecord(k)
       /\ out_dir' = OutputAfter(k, src_dir, out_dir)
  /\ UNCHANGED << src_dir, run_pc, step_num, runs, all_done >>
  /\ PipelineFrame

\* What the user types at a yes/no prompt of main.
Responses == {"", "y", "n"}

\* What the user types at the prompt after a failed step.
Choices == {"", "1", "2", "3"}

\* main: the confirmation before the loop.
MainConfirm ==
  /\ run_pc = "idle"
  /\ \E response \in Responses :
       run_pc' = IF response # "" /\ response # "y" THEN "stopped" ELSE "step"
  /\ UNCHANGED << src_dir, out_dir, cli, step_num, runs, all_done >>
  /\ PipelineFrame

\* main: the end of the loop body or of the loop, after step_num.
AfterStep ==
  IF step_num < 4
  THEN /\ step_num' = step_num + 1
       /\ run_pc' = "step"
       /\ UNCHANGED all_done
  ELSE /\ run_pc' = "done"
       /\ all_done' = TRUE
       /\ UNCHANGED step_num

\* main: success = run_step(step_num, ...).
MainRunStep ==
  /\ run_pc = "step"
  /\ runs' = Append(runs, RunRecord(step_num))
  /\ out_dir' = OutputAfter(step_num, src_dir, out_dir)
  /\ IF ScriptExit(step_num, src_dir, out_dir) # 0
     THEN run_pc' = "failed" /\ UNCHANGED << step_num, all_done >>
     ELSE IF step_num < 4
          THEN run_pc' = "proceed" /\ UNCHANGED << step_num, all_done >>
          ELSE AfterStep
  /\ UNCHANGED << src_dir, cli >>
  /\ PipelineFrame

\* main: the prompt after a failed step; choice 2 is `continue`.
MainFailedChoice ==
  /\ run_pc = "failed"
  /\ \E choice \in Choices :
       IF choice = "2" THEN AfterStep
       ELSE run_pc' = "stopped" /\ UNCHANGED << step_num, all_done >>
  /\ UNCHANGED << src_dir, out_dir, cli, runs >>
  /\ PipelineFrame

\* main: the prompt between two steps.
MainProceed ==
  /\ run_pc = "proceed"
  /\ \E response \in Responses :
       IF response # "" /\ response # "y"
       THEN run_pc' = "stopped" /\ UNCHANGED << step_num, all_done >>
       ELSE AfterStep
  /\ UNCHANGED << src_dir, out_dir, cli, runs >>
  /\ PipelineFrame

RunNext ==
  \/ CliRun
  \/ MainConfirm
  \/ MainRunStep
  \/ MainFailedChoice
  \/ MainProceed

RunSpec == RunInit /\ [][RunNext]_vars

-----------------------------------------------------------------------------
(* Two runs of recheck_unknown_files at the same time on one output        *)
(* directory.                                                              *)
(*                                                                         *)
(* procs[p] is where process p stands: pc, its listings all_output_files   *)
(* and recheck_files with the position idx, and between the choice of      *)
(* target_path and shutil.move the file at hand (cur), its destination     *)
(* (dest) and the name chosen for it (target).  The loops hold no lock:     *)
(* the test target_path.exists() with the _dup loop and the test            *)
(* file_path.exists() are one step, shutil.move is the next.  OUTPUT_DIR    *)
(* .iterdir() lists in no specified order: the verification takes the       *)
(* files of its listing in any order.                                      *)

Procs == {1, 2}

NoFile == [dir |-> <<>>, name |-> <<>>, img |-> <<>>]

ProcIdle ==
  [pc |-> "idle", all_output_files |-> {}, recheck_files |-> <<>>, idx |-> 1,
   cur |-> NoFile, dest |-> <<>>, target |-> <<>>]

\* The contents of the images of the race.
RaceImages == { <<"a">>, <<"b">>, <<"c">> }

\* Two images of the same name, both of Minor 0010 by their name, in two
\* different folders, and possibly a third one already in Minor_0010.
RaceInit ==
  /\ source = {}
  /\ ocr = [img \in RaceImages |-> OcrText(TRUE, <<>>, <<>>)]
  /\ \E ds \in SUBSET {MinorDir(<<"0", "0", "0", "1">>),
                       MinorDir(<<"0", "0", "0", "2">>), UnknownDir} :
       \E taken \in BOOLEAN :
         /\ Cardinality(ds) = 2
         /\ files =
              { [dir |-> d, name |-> SrcInstall10,
                 img |-> IF d = (CHOOSE e \in ds : TRUE) THEN <<"a">>
                         ELSE <<"b">>] : d \in ds }
              \cup (IF taken
                    THEN { [dir |-> MinorDir(<<"0", "0", "1", "0">>),
                            name |-> SrcInstall10, img |-> <<"c">>] }
                    ELSE {})
         /\ dirs = ds \cup (IF taken THEN {MinorDir(<<"0", "0", "1", "0">>)}
                            ELSE {})
  /\ pc = "idle"
  /\ image_files = <<>>
  /\ unknown_files = <<>>
  /\ all_output_files = {}
  /\ recheck_files = <<>>
  /\ idx = 1
  /\ moved_by_filename = 0
  /\ moved_by_ocr = 0
  /\ still_unknown = <<>>
  /\ history = <<>>
  /\ placed = NoPlacement
  /\ fn_call = NoCall
  /\ fn_result = Pending
  /\ src_dir = "images"
  /\ out_dir = "images"
  /\ RunIdle
  /\ files_at_start = files
  /\ relocated = << >>
  /\ files_at_classify = {}
  /\ procs = [p \in Procs |-> ProcIdle]

RaceFrame ==
  UNCHANGED << source, ocr, pc, locals, history, placed, fnvars, runvars,
               files_at_start, relocated, files_at_classify >>

\* The scan of output, Unknown left out.
RaceStart(p) ==
  /\ procs[p].pc = "idle"
  /\ procs' = [procs EXCEPT
                 ![p].pc = "verify",
                 ![p].all_output_files =
                    {f \in files : f.dir # UnknownDir /\ IsImage(f.name)}]
  /\ UNCHANGED << dirs, files >>
  /\ RaceFrame

\* One file of the filename re-verification up to shutil.move: the folder is
\* made, target_path is chosen, the file is seen to exist.
RaceVerifyCheck(p) ==
  /\ procs[p].pc = "verify"
  /\ \E f \in procs[p].all_output_files :
       LET d == VerifyTarget(f)
       IN  IF d = NoneVal
           THEN /\ procs' = [procs EXCEPT
                               ![p].all_output_files = @ \ {f}]
                /\ UNCHANGED dirs
           ELSE /\ dirs' = dirs \cup {d}
                /\ IF f \notin files
                   THEN procs' = [procs EXCEPT
                                    ![p].all_output_files = @ \ {f}]
                   ELSE procs' = [procs EXCEPT
                                    ![p].all_output_files = @ \ {f},
                                    ![p].pc = "verify_move",
                                    ![p].cur = f,
                                    ![p].dest = d,
                                    ![p].target = TargetName(files, d, f.name)]
  /\ UNCHANGED files
  /\ RaceFrame

\* shutil.move(file_path, target_path): a file that is no longer there
\* raises FileNotFoundError, which nothing catches.
RaceMove(p, back) ==
  /\ IF procs[p].cur \in files
     THEN /\ files' = MoveFile(files, procs[p].cur, procs[p].dest,
                               procs[p].target)
          /\ procs' = [procs EXCEPT ![p].pc = back, ![p].cur = NoFile]
     ELSE /\ procs' = [procs EXCEPT ![p].pc = "failed", ![p].cur = NoFile]
          /\ UNCHANGED files
  /\ UNCHANGED dirs
  /\ RaceFrame

RaceVerifyMove(p) ==
  /\ procs[p].pc = "verify_move"
  /\ RaceMove(p, "verify")

\* The sorted listing of Unknown, after the verification.
RaceOcrStart(p) ==
  /\ procs[p].pc = "verify"
  /\ procs[p].all_output_files = {}
  /\ LET listing == {f \in files : f.dir = UnknownDir /\ IsImage(f.name)}
         names == SortedNames({f.name : f \in listing})
     IN  IF UnknownDir \notin dirs \/ listing = {}
         THEN procs' = [procs EXCEPT ![p].pc = "done"]
         ELSE procs' = [procs EXCEPT
                          ![p].pc = "ocr",
                          ![p].idx = 1,
                          ![p].recheck_files =
                             [i \in 1..Len(names) |->
                                CHOOSE f \in listing : f.name = names[i]]]
  /\ UNCHANGED << dirs, files >>
  /\ RaceFrame

\* One file of the OCR retry up to shutil.move.
RaceOcrCheck(p) ==
  /\ procs[p].pc = "ocr"
  /\ procs[p].idx <= Len(procs[p].recheck_files)
  /\ LET f == procs[p].recheck_files[procs[p].idx]
         minor_value == extract_minor_value(f.name, ocr[f.img])
         d == MinorDir(Format04d(ToInt(minor_value)))
     IN  IF minor_value = NoneVal
         THEN /\ procs' = [procs EXCEPT ![p].idx = @ + 1]
              /\ UNCHANGED dirs
         ELSE /\ dirs' = dirs \cup {d}
              /\ IF f \notin files
                 THEN procs' = [procs EXCEPT ![p].idx = @ + 1]
                 ELSE procs' = [procs EXCEPT
                                  ![p].idx = @ + 1,
                                  ![p].pc = "ocr_move",
                                  ![p].cur = f,
                                  ![p].dest = d,
                                  ![p].target = TargetName(files, d, f.name)]
  /\ UNCHANGED files
  /\ RaceFrame

RaceOcrMove(p) ==
  /\ procs[p].pc = "ocr_move"
  /\ RaceMove(p, "ocr")

RaceOcrDone(p) ==
  /\ procs[p].pc = "ocr"
  /\ procs[p].idx > Len(procs[p].recheck_files)
  /\ procs' = [procs EXCEPT ![p].pc = "done"]
  /\ UNCHANGED << dirs, files >>
  /\ RaceFrame

RaceNext ==
  \E p \in Procs :
    \/ RaceStart(p)
    \/ RaceVerifyCheck(p)
    \/ RaceVerifyMove(p)
    \/ RaceOcrStart(p)
    \/ RaceOcrCheck(p)
    \/ RaceOcrMove(p)
    \/ RaceOcrDone(p)

RaceSpec == RaceInit /\ [][RaceNext]_vars

-----------------------------------------------------------------------------
(* Properties of the pure functions (checked under FnSpec).                *)

Zero4 == <<"0", "0", "0", "0">>

FourDigits(v) == Len(v) = 4 /\ IsDigits(v)

\* C3: extract_minor_value never returns "0000": its result is None or a
\* 4-digit decimal string other than "0000", whether the value comes from
\* the filename or from an OCR pattern.
C3_NeverReturns0000 ==
  (fn_call.fn = "extract" /\ fn_result # Pending)
    => \/ fn_result = NoneVal
       \/ (FourDigits(fn_result) /\ fn_result # Zero4)

\* C4: for every filename <prefix><keyword><identifier><date>.<ext> with
\* an extension as the code spells it and an
\* identifier of 1 to 4 digits directly before a date of 6 or more digits,
\* the filename parser followed by zero-padding gives the identifier padded
\* to 4 digits.
C4_WellFormedFilenames ==
  ( /\ fn_call.fn = "parse" /\ fn_result # Pending
    /\ IsImage(fn_call.name)
    /\ fn_call.kw \in Keywords
    /\ Len(fn_call.ident) >= 1 /\ Len(fn_call.ident) <= 4
    /\ Len(fn_call.date) >= 6 )
    => /\ fn_result # NoneVal
       /\ Format04d(ToInt(fn_result)) = Zfill4(fn_call.ident)

\* A character that normalisation reads as a digit, and the digit it reads.
ReadsAsDigit(c) == c \in Digit \cup {"O", "o"}

DigitRead(c) == IF c \in {"O", "o"} THEN "0" ELSE c

\* C9: normalize_four_digit_minor replaces O and o by 0, takes the first
\* maximal run of digits and returns its first 4 digits when the run has 4
\* or more, otherwise the run left-padded with 0 to length 4; it returns
\* None when the input is empty or holds no digit; every other result is
\* exactly 4 decimal digits.  (OO19 -> 0019, 19 -> 0019, 12345 -> 1234.)
C9_NormalizeContract ==
  (fn_call.fn = "normalize" /\ fn_result # Pending)
    => LET raw == fn_call.raw
           first == MinOf({i \in 1..Len(raw) : ReadsAsDigit(raw[i])})
           n == MaxOf({j \in first..Len(raw) :
                         \A k \in first..j : ReadsAsDigit(raw[k])}) - first + 1
       IN  /\ (fn_result = NoneVal)
                <=> (\A i \in 1..Len(raw) : ~ReadsAsDigit(raw[i]))
           /\ fn_result # NoneVal =>
                /\ FourDigits(fn_result)
                /\ \A k \in 1..4 :
                     fn_result[k] =
                       IF n >= 4 THEN DigitRead(raw[first + k - 1])
                       ELSE IF k <= 4 - n THEN "0"
                       ELSE DigitRead(raw[first + k - 1 - (4 - n)])
           /\ (raw = <<"O", "O", "1", "9">> => fn_result = <<"0", "0", "1", "9">>)
           /\ (raw = <<"1", "9">> => fn_result = <<"0", "0", "1", "9">>)
           /\ (raw = <<"1", "2", "3", "4", "5">>
                 => fn_result = <<"1", "2", "3", "4">>)
           /\ (raw = <<>> => fn_result = NoneVal)

\* C9 witness: a call whose run is cut to 4 digits after a replaced letter.
C9_Witness ==
  /\ fn_call.fn = "normalize"
  /\ fn_call.raw = <<"o", "1", "9", "1", "9">>
  /\ fn_result = <<"0", "1", "9", "1">>

-----------------------------------------------------------------------------
(* Properties of the pipeline (checked under Spec).                        *)

Ops == [i \in 1..Len(history) |-> history[i].op]

LastOp == IF history = <<>> THEN "none" ELSE history[Len(history)].op

\* The history is one or more full pipeline runs: classify, then reconcile.
FullRuns ==
  /\ Len(history) >= 2
  /\ Len(history) % 2 = 0
  /\ \A i \in 1..Len(history) :
       history[i].op = IF i % 2 = 1 THEN "classify" ELSE "reconcile"

SourceImages == {n \in source : IsImage(n)}

OutputImages == {f \in files : IsImage(f.name)}

\* What the OCR part alone yields for an image.
OcrValue(img) == OcrPart(ocr[img])

\* C1: after any number of full pipeline runs over an unchanged source,
\* every source image is in exactly one bucket, exactly once.
C1_ExactlyOneBucket ==
  (pc = "idle" /\ FullRuns)
    => \A n \in SourceImages : Cardinality({f \in files : f.img = n}) = 1

\* C2: reconcile run twice in a row on a layout that classify and reconcile
\* alone have produced, with nothing changed in between, makes no move the
\* second time, in neither phase.
C2_SecondReconcileMovesNothing ==
  (\A j \in 1..Len(history) : history[j].op # "external")
    => \A i \in 2..Len(history) :
         (history[i - 1].op = "reconcile" /\ history[i].op = "reconcile")
           => (history[i].by_name = 0 /\ history[i].by_ocr = 0)

\* C5: a filename candidate of 5 or more digits is never used as a bucket
\* key: classify and the filename re-verification place such a file in
\* Unknown only, the OCR retry places it by the OCR value only, no partition
\* is named after the candidate, extract_minor_value gives for such a name
\* what the OCR part gives, every such file is in Unknown when the
\* re-verification ends, and stays there when OCR finds nothing.
C5_LongCandidateNeverKey ==
  /\ (placed.by \in {"classify", "verify"} /\ LongCandidate(placed.want))
       => placed.dir = UnknownDir
  /\ (placed.by = "ocr" /\ LongCandidate(placed.want))
       => (OcrValue(placed.img) # NoneVal
           /\ placed.dir = MinorDir(OcrValue(placed.img)))
  /\ pc = "ocr" =>
       \A i \in 1..Len(recheck_files) :
         LET f == recheck_files[i]
         IN  LongCandidate(f.name)
               => extract_minor_value(f.name, ocr[f.img]) = OcrValue(f.img)
  /\ \A n \in source :
       LongCandidate(n) =>
         /\ MinorDir(FilenameCandidate(n)) \notin dirs
         /\ MinorDir(Take(FilenameCandidate(n), 4)) \notin dirs
         /\ (pc = "idle" /\ LastOp = "classify") => n \in NamesIn(files, UnknownDir)
  /\ (pc = "verify" /\ all_output_files = {})
       => \A f \in files : LongCandidate(f.name) => f.dir = UnknownDir
  /\ (pc = "idle" /\ LastOp = "reconcile")
       => \A f \in files :
            (LongCandidate(f.name) /\ OcrValue(f.img) = NoneVal)
              => f.dir = UnknownDir

\* C5 witness: the re-verification has moved a file with a long candidate out
\* of a Minor partition into Unknown, and OCR, finding nothing, left it there.
C5_Witness ==
  /\ pc = "idle" /\ LastOp = "reconcile"
  /\ history[Len(history)].by_name = 1
  /\ history[Len(history)].by_ocr = 0
  /\ placed.by = "verify" /\ LongCandidate(placed.want)
  /\ \E f \in files : LongCandidate(f.name) /\ f.dir = UnknownDir

\* C6: from an empty output directory, after classify followed by reconcile
\* the image files over all buckets number as many as the source images.
C6_CountAfterClassifyReconcile ==
  (pc = "idle" /\ Ops = <<"classify", "reconcile">>)
    => Cardinality(OutputImages) = Cardinality(SourceImages)

\* C6 witness: such a run with two source images, one of them moved by OCR.
C6_Witness ==
  /\ pc = "idle" /\ Ops = <<"classify", "reconcile">>
  /\ Cardinality(SourceImages) = 2
  /\ history[2].by_ocr = 1
  /\ Cardinality(OutputImages) = 2

\* The smallest N >= 1 for which name_dupN is not among the names.
FirstFreeDup(name, names) ==
  CHOOSE c \in 1..(Cardinality(names) + 1) :
    /\ DupName(name, c) \notin names
    /\ \A b \in 1..(c - 1) : DupName(name, b) \in names

\* C7: every placement into a bucket writes under a name that was free: the
\* file's own name when the destination did not hold it, else name_dupN with
\* the smallest free N >= 1; no file present at the destination is
\* overwritten.
C7_CollisionsGetDupName ==
  placed.by # "none" =>
    /\ placed.got \notin placed.had
    /\ placed.got = IF placed.want \notin placed.had THEN placed.want
                    ELSE DupName(placed.want,
                                 FirstFreeDup(placed.want, placed.had))

\* C8: every partition under output is named Unknown or Minor_ followed by
\* exactly 4 decimal digits, and Minor_0000 is never created.
C8_PartitionNames ==
  \A d \in dirs :
    \/ d = UnknownDir
    \/ (Head(d) = "Minor_" /\ FourDigits(Tail(d)) /\ Tail(d) # Zero4)

-----------------------------------------------------------------------------
(* Properties of the phases of reconcile (checked under Spec).             *)

\* The filename re-verification has handled every file of its scan.
VerifyFinished == pc = "verify" /\ all_output_files = {}

\* The image files outside Unknown when the run started.
ScanAtStart ==
  {f \in files_at_start : f.dir # UnknownDir /\ IsImage(f.name)}

\* The image files in Unknown when the run started.
UnknownAtStart ==
  {f \in files_at_start : f.dir = UnknownDir /\ IsImage(f.name)}

\* C15: when the filename re-verification finishes, every image that was
\* outside Unknown when it started and whose filename yields a candidate of
\* fewer than 5 digits is in Minor_<candidate padded to 4 digits>, and every
\* such image whose filename yields 5 or more digits is in Unknown.
C15_ReverifiedPlacement ==
  VerifyFinished =>
    /\ DOMAIN relocated = ScanAtStart
    /\ \A f \in ScanAtStart :
         /\ relocated[f] \in files
         /\ relocated[f].img = f.img
         /\ UsableCandidate(f.name)
              => relocated[f].dir = MinorDir(Zfill4(FilenameCandidate(f.name)))
         /\ LongCandidate(f.name) => relocated[f].dir = UnknownDir

\* C15 witness: the phase has finished after it moved one image to the
\* partition of its filename and another, of 5 digits, to Unknown.
C15_Witness ==
  /\ VerifyFinished
  /\ \E f \in ScanAtStart :
       /\ UsableCandidate(f.name) /\ relocated[f] # f
       /\ relocated[f].dir = MinorDir(Zfill4(FilenameCandidate(f.name)))
  /\ \E f \in ScanAtStart :
       LongCandidate(f.name) /\ relocated[f].dir = UnknownDir

\* The filename gives nothing to correct for a file of the scan: it yields
\* no candidate, or the candidate of its partition.
RightlyPlaced(f) ==
  \/ FilenameCandidate(f.name) = NoneVal
  \/ /\ UsableCandidate(f.name)
     /\ CurrentMinor(f.dir) = Zfill4(FilenameCandidate(f.name))

\* C16: the filename re-verification never runs the OCR retry, never moves
\* or renames an image that was in Unknown when it started, and leaves in
\* place, under the same name, every image outside Unknown whose filename
\* yields no candidate or the candidate of its partition.
C16_ReverifyFrame ==
  pc = "verify" =>
    /\ idx = 1 /\ moved_by_ocr = 0 /\ still_unknown = <<>>
    /\ recheck_files = <<>>
    /\ UnknownAtStart \subseteq files
    /\ \A f \in ScanAtStart :
         RightlyPlaced(f) => (relocated[f] = f /\ f \in files)

\* C16 witness: the phase has finished and has moved a file, while Unknown
\* held an image and a file of the scan sat in the partition of its
\* filename.
C16_Witness ==
  /\ VerifyFinished
  /\ moved_by_filename >= 1
  /\ UnknownAtStart # {}
  /\ \E f \in ScanAtStart : UsableCandidate(f.name) /\ RightlyPlaced(f)

\* One iteration of the OCR retry loop, on the file recheck_files[idx].
OcrIteration == pc = "ocr" /\ idx <= Len(recheck_files) /\ idx' = idx + 1

\* C17: in the OCR retry, an image of Unknown for which extract_minor_value
\* returns an identifier is moved into Minor_<identifier> and is no longer
\* in Unknown; one for which it returns None stays in Unknown under its
\* name, and nothing else under output changes.
C17_OcrRetryFrame ==
  [][ OcrIteration =>
        LET f == recheck_files[idx]
            v == extract_minor_value(f.name, ocr[f.img])
        IN  /\ f \in files /\ f.dir = UnknownDir
            /\ IF v # NoneVal
               THEN /\ f \notin files'
                    /\ f.name \notin NamesIn(files', UnknownDir)
                    /\ \E g \in files' \ files :
                         /\ g.dir = MinorDir(v) /\ g.img = f.img
                         /\ files' = (files \ {f}) \cup {g}
               ELSE /\ files' = files
                    /\ dirs' = dirs ]_vars

\* C17 witness: the loop has left one image in Unknown and moved another.
C17_Witness ==
  /\ pc = "ocr"
  /\ idx = 3
  /\ moved_by_ocr = 1
  /\ Len(still_unknown) = 1
  /\ recheck_files[1] \in files
  /\ recheck_files[2] \notin files

\* C18: while recheck_unknown_files runs, output holds as many image files
\* as when it started, and as many of each image: every move takes one file
\* away and adds one under a free name, so nothing is overwritten or lost.
C18_ReconcileKeepsCount ==
  pc \in {"verify", "ocr"} =>
    /\ Cardinality(files) = Cardinality(files_at_start)
    /\ \A img \in {f.img : f \in files_at_start \cup files} :
         Cardinality({f \in files : f.img = img}) =
           Cardinality({f \in files_at_start : f.img = img})

\* C18 witness: the run has moved files in both phases, one of them onto a
\* name that was taken, so that it was written under a _dup name.
C18_Witness ==
  /\ pc = "ocr"
  /\ idx = Len(recheck_files) + 1
  /\ moved_by_filename + moved_by_ocr > 0
  /\ \E f \in files \ files_at_start :
       /\ f.name \notin {g.name : g \in files_at_start}
       /\ \E g \in files_at_start \cap files :
            g.dir = f.dir /\ f.name = DupName(g.name, 1)

\* The files the filename re-verification of this run has put in Unknown.
MovedIntoUnknown ==
  {relocated[f] : f \in {g \in DOMAIN relocated :
                           relocated[g].dir = UnknownDir}}

\* C19: the filename re-verification is left only when every image scanned
\* outside Unknown has been handled; when it has moved images to Unknown the
\* OCR retry follows in the same run with each of them in its work list,
\* takes the list one file at a time, hands each of them to the OCR engine,
\* and the run ends only when the list is exhausted.
C19_OcrAfterReverify ==
  [][ /\ (pc = "verify" /\ pc' # "verify") =>
           /\ all_output_files = {}
           /\ MovedIntoUnknown # {} =>
                /\ pc' = "ocr"
                /\ idx' = 1
                /\ \A u \in MovedIntoUnknown :
                     \E i \in 1..Len(recheck_files') : recheck_files'[i] = u
      /\ (pc = "ocr" /\ idx' # idx) =>
           /\ idx' = idx + 1
           /\ recheck_files[idx] \in MovedIntoUnknown =>
                extract_minor_value(recheck_files[idx].name,
                                    ocr[recheck_files[idx].img])
                  = OcrValue(recheck_files[idx].img)
      /\ (pc = "ocr" /\ pc' # "ocr") => idx = Len(recheck_files) + 1
    ]_vars

\* C19 witness: the OCR retry has gone through a work list of two files, the
\* second of which the filename re-verification of the run put in Unknown.
C19_Witness ==
  /\ pc = "ocr"
  /\ Len(recheck_files) = 2
  /\ idx = 3
  /\ recheck_files[2] \in MovedIntoUnknown
  /\ recheck_files[1] \in UnknownAtStart

\* The run of recheck_unknown_files that directly follows one run of
\* organize_files on an empty output directory.
ReconcileAfterFirstClassify ==
  /\ Len(history) >= 1
  /\ history[1].op = "classify"
  /\ \/ Len(history) = 1 /\ pc \in {"verify", "ocr"}
     \/ Len(history) >= 2 /\ history[2].op = "reconcile"

\* C20: when organize_files has populated an empty output directory and
\* recheck_unknown_files runs next, its filename re-verification moves no
\* file.
C20_ClassifyAgreesWithReverify ==
  ReconcileAfterFirstClassify =>
    IF Len(history) = 1 THEN moved_by_filename = 0
    ELSE history[2].by_name = 0

\* C20 witness: the filename re-verification that follows the first classify
\* has gone through its whole scan, in which classify had put a file whose
\* candidate is shorter than the four digits of its partition.
C20_Witness ==
  /\ Len(history) = 1
  /\ history[1].op = "classify"
  /\ VerifyFinished
  /\ moved_by_filename = 0
  /\ \E f \in ScanAtStart :
       /\ UsableCandidate(f.name)
       /\ FilenameCandidate(f.name) # CurrentMinor(f.dir)
       /\ f \in files

-----------------------------------------------------------------------------
(* Properties of organize_files run again (checked under Spec).            *)

\* The paths of a set of files under output.
Paths(fs) == {<<f.dir, f.name>> : f \in fs}

\* A run of organize_files that directly follows a run of organize_files is
\* in progress or has just ended.
SecondClassify ==
  \/ pc \in {"classify", "classify_unknown"} /\ LastOp = "classify"
  \/ /\ pc = "idle"
     /\ Len(history) >= 2
     /\ history[Len(history)].op = "classify"
     /\ history[Len(history) - 1].op = "classify"

\* C21: organize_files run twice in a row on an unchanged source: the second
\* run leaves in every bucket the file names the first run left (it adds,
\* renames and removes none).
C21_ClassifyTwiceSameNames ==
  SecondClassify => Paths(files) = Paths(files_at_classify)

\* C21 witness: the second of two runs in a row has ended, after it went
\* through a file of a Minor_ partition and met a file of Unknown.
C21_Witness ==
  /\ pc = "idle"
  /\ Len(history) = 2
  /\ history[1].op = "classify"
  /\ history[2].op = "classify"
  /\ placed.by = "classify"
  /\ placed.had # {}
  /\ \E f \in files : f.dir = UnknownDir
  /\ \E f \in files : f.dir # UnknownDir

\* The names of the files that were in Unknown when organize_files started.
UnknownAtClassify == {f.name : f \in {g \in files_at_classify : g.dir = UnknownDir}}

\* A run of organize_files is in progress or was the last thing to end.
ClassifyRun ==
  \/ pc \in {"classify", "classify_unknown"}
  \/ pc = "idle" /\ LastOp = "classify"

\* C22: organize_files copies no source file whose name is the name of a
\* file of Unknown at its start: the file is in neither of its work lists,
\* and on its account no bucket gains or loses a file (the files of that name
\* and the files holding that image stay as they were).
C22_SkipsNamesOfUnknown ==
  ClassifyRun =>
    /\ \A i \in 1..Len(image_files) : image_files[i] \notin UnknownAtClassify
    /\ \A i \in 1..Len(unknown_files) : unknown_files[i] \notin UnknownAtClassify
    /\ \A n \in source \cap UnknownAtClassify :
         /\ {f \in files : f.name = n} = {f \in files_at_classify : f.name = n}
         /\ {f \in files : f.img = n} = {f \in files_at_classify : f.img = n}

\* C22 witness: a run has ended that skipped one source file, whose name was
\* in Unknown, and copied another.
C22_Witness ==
  /\ pc = "idle"
  /\ LastOp = "classify"
  /\ source \cap UnknownAtClassify # {}
  /\ files # files_at_classify

-----------------------------------------------------------------------------
(* Extensions and keywords (checked under FnSpec).                         *)

\* str.lower() of one character of an extension.
LowerChar(c) ==
  CASE c = "J" -> "j" [] c = "P" -> "p" [] c = "G" -> "g"
    [] c = "E" -> "e" [] c = "N" -> "n" [] OTHER -> c

LowerStr(s) == [i \in 1..Len(s) |-> LowerChar(s[i])]

\* The name ends in .jpg, .jpeg or .png in some mix of letter cases.
ImageExtAnyCase(name) ==
  LowerStr(Suffix(name)) \in
    { <<".", "j", "p", "g">>, <<".", "j", "p", "e", "g">>,
      <<".", "p", "n", "g">> }

\* C11: image files are recognised by the extensions jpg, jpeg and png
\* irrespective of letter case: for every case variant the directory scans
\* of classify and reconcile take the file for an image, and the filename
\* parser strips the extension before it looks for the date.
C11_ExtensionAnyCase ==
  (fn_call.fn = "parse" /\ fn_result # Pending /\ ImageExtAnyCase(fn_call.name))
    => /\ IsImage(fn_call.name)
       /\ fn_result = extract_minor_from_filename(Stem(fn_call.name))

\* The name holds one of the two keyword tokens.
HasKeyword(name) ==
  \E i \in 1..(Len(name) - 1) :
    \/ (name[i] = "seol" /\ name[i + 1] = "chi")
    \/ (name[i] = "bi" /\ name[i + 1] = "con")

\* C12: a filename that holds neither keyword token is not recognised by the
\* filename rule: the parser yields no usable identifier for it, and
\* classify sends the image to Unknown, never to a Minor partition.
C12_NoKeywordUnknown ==
  (fn_call.fn = "parse" /\ fn_result # Pending /\ ~HasKeyword(fn_call.name))
    => /\ (fn_result = NoneVal \/ Len(fn_result) >= 5)
       /\ FilenameTarget(fn_call.name) = UnknownDir

\* C23: when the 9-digit date pattern (25 and 7 digits) strips a suffix, the
\* candidate is the candidate of the prefix that strip leaves (the digits
\* after the keyword, else the last run of digits, else none): no pattern of
\* lower priority splits the name again.
C23_NinePatternDecides ==
  ( /\ fn_call.fn = "parse" /\ fn_result # Pending
    /\ Pattern9(StripExt(fn_call.name)) )
    => fn_result =
         PrefixCandidate(Take(StripExt(fn_call.name),
                              Len(StripExt(fn_call.name)) - 9))

\* C24: when the filename parser gives a candidate of 1 to 4 digits,
\* extract_minor_value returns that candidate padded with zeros to 4 digits
\* at once: whatever the image and the OCR engine would give for it, a value
\* or an exception, has no part in the result.
C24_FilenameBypassesOcr ==
  ( /\ fn_call.fn = "extract" /\ fn_result # Pending
    /\ extract_minor_from_filename(fn_call.name) # NoneVal
    /\ Len(extract_minor_from_filename(fn_call.name)) \in 1..4 )
    => fn_result = Zfill4(extract_minor_from_filename(fn_call.name))

\* C24 witness: a call for a name with the candidate 10 and an image in
\* which the OCR part would read 0307.
C24_Witness ==
  /\ fn_call.fn = "extract"
  /\ fn_call.name = SrcInstall10
  /\ OcrPart(fn_call.o) = <<"0", "3", "0", "7">>
  /\ fn_result = <<"0", "0", "1", "0">>

-----------------------------------------------------------------------------
(* Properties of the OCR cascades (checked under FnSpec).                  *)

SceneCallDone(fn) == fn_call.fn = fn /\ fn_result # Pending

\* The texts that recheck_unknown searches: the bottom-left text, and the
\* text of all regions only when the bottom-left text is empty.
RecheckSearchTexts(scene) ==
  IF JoinTexts(RecheckBottomLeft(scene)) # <<>>
  THEN << JoinTexts(RecheckBottomLeft(scene)) >>
  ELSE << JoinTexts(ConfidenceFilter(scene.results, 15)) >>

SearchTexts(call) ==
  IF call.fn = "organize_ocr" THEN OrganizeSearchTexts(call.o)
  ELSE RecheckSearchTexts(call.o)

\* A keyword next to a digit run: the keyword, \s*[:]?\s* and the run, or a
\* run of 3 to 4, \s* and the keyword.
AdjacentPatterns ==
  { Fwd(FALSE, kw, "colon", OcrDigit, 1, 0) :
      kw \in {KwBeaconCok, KwInstall, << MinorWords >>} }
  \cup { Rev(kw, OcrDigit, 3, 4) :
           kw \in {KwBeaconCok, KwInstall, << MinorWords >>} }

\* The values of the keyword-adjacent matches of a text that are not 0000.
KeywordAdjacentValues(text) ==
  { normalize_four_digit_minor(GroupAt(text, i, p)) :
      <<i, p>> \in { ip \in (1..Len(text)) \X AdjacentPatterns :
                       /\ GroupAt(text, ip[1], ip[2]) # NoneVal
                       /\ Accepted(GroupAt(text, ip[1], ip[2])) } }

AdjacentInSearchTexts(call) ==
  UNION { KeywordAdjacentValues(SearchTexts(call)[k]) :
            k \in 1..Len(SearchTexts(call)) }

\* C25: whenever a search text holds a keyword next to a digit run that
\* normalises to a value other than 0000, extract_minor_value returns the
\* value of a keyword-adjacent match, never a value paired by distance.
C25_KeywordAdjacentOutranks ==
  ((SceneCallDone("organize_ocr") \/ SceneCallDone("recheck_ocr"))
   /\ AdjacentInSearchTexts(fn_call) # {})
    => fn_result \in AdjacentInSearchTexts(fn_call)

\* The lists of patterns of organize_by_minor, in the order of the function.
Families ==
  << organize_beacon_patterns_four_digit, beacon_patterns_flexible,
     InstallPatterns(4, 4), install_patterns_flexible,
     minor_patterns_four_digit, minor_patterns_flexible >>

\* The values other than 0000 that the patterns of any list capture as their
\* first match in a text.
PatternValues(text) ==
  { normalize_four_digit_minor(FindFirst(Families[k][i], text)) :
      <<k, i>> \in { ki \in (1..Len(Families)) \X (1..30) :
                       /\ ki[2] <= Len(Families[ki[1]])
                       /\ Accepted(FindFirst(Families[ki[1]][ki[2]], text)) } }

FamilyOrder(scene) ==
  LET search_texts == OrganizeSearchTexts(scene)
      bottom_left_text == JoinTexts(OrganizeBottomLeft(scene))
  IN  Captured(Families[1], search_texts[1])
      \o (IF bottom_left_text # <<>>
          THEN BeaconMatchCaptures(bottom_left_text, VariantBeacon, 4, 4)
          ELSE <<>>)
      \o Over(Tail(search_texts), Families[1])
      \o Over(search_texts, Families[2])
      \o Over(search_texts, Families[3])
      \o Over(search_texts, Families[4])
      \o Over(search_texts, Families[5])
      \o Over(search_texts, Families[6])

RecheckCascadeCaptures(scene) ==
  RecheckOcr(scene).captures
  \o (IF RecheckOcr(scene).bottom_left THEN RecheckOcr(scene).late
      ELSE Captured(beacon_patterns_flexible,
                    JoinTexts(ConfidenceFilter(scene.results, 15))))

CascadeCaptures(call) ==
  IF call.fn = "organize_ocr" THEN OrganizeCaptures(call.o)
  ELSE RecheckCascadeCaptures(call.o)

\* C27: when the first match of a pattern normalises to 0000, the search
\* continues with the remaining patterns and search texts: the result is the
\* first later match that does not normalise to 0000, None when there is
\* none, and never 0000.
C27_ContinuesAfter0000 ==
  ((SceneCallDone("organize_ocr") \/ SceneCallDone("recheck_ocr"))
   /\ \E i \in 1..Len(CascadeCaptures(fn_call)) :
        normalize_four_digit_minor(CascadeCaptures(fn_call)[i]) = Zero4)
    => fn_result = PatternCascade(CascadeCaptures(fn_call))

BottomLeftOf(call) ==
  IF call.fn = "organize_ocr" THEN OrganizeBottomLeft(call.o)
  ELSE RecheckBottomLeft(call.o)

\* The values other than 0000 of the runs of 4 in the number regions that
\* are close to a beacon region of the bottom-left area.
ClosePairValues(call) ==
  { normalize_four_digit_minor(FirstRun(ClosePairs(BottomLeftOf(call), 4, call.o)[k][2].text, 4, 4)) :
      k \in { j \in 1..Len(ClosePairs(BottomLeftOf(call), 4, call.o)) :
                Accepted(FirstRun(ClosePairs(BottomLeftOf(call), 4, call.o)[j][2].text, 4, 4)) } }

\* C28: in both implementations, when a beacon region and a region with a
\* run of 4 of the bottom-left area have centres at most 20% of
\* min(width, height) apart and the run does not normalise to 0000,
\* extract_minor_value returns the value of such a pair.
C28_ClosePairCombined ==
  ((SceneCallDone("organize_ocr") \/ SceneCallDone("recheck_ocr"))
   /\ ClosePairValues(fn_call) # {})
    => fn_result \in ClosePairValues(fn_call)

\* C29: in recheck_unknown, with an empty bottom-left text, the text of all
\* regions is searched with the gong-jong rule, the beacon patterns of 3 to
\* 4 digits and then the beacon patterns of any length: the result is the
\* first capture in that order that does not normalise to 0000, so a text
\* that only a pattern of any length matches yields its number, padded.
C29_WholeImageCascade ==
  (SceneCallDone("recheck_ocr") /\ ~RecheckOcr(fn_call.o).bottom_left)
    => fn_result = PatternCascade(RecheckCascadeCaptures(fn_call.o))

-----------------------------------------------------------------------------
(* Properties of two reconcile runs at once (checked under RaceSpec).      *)

\* C30: when two reconcile processes move images of the same name into the
\* same partition, neither move overwrites the other: every image that was
\* under output is still there, each under a name of its own.
C30_ConcurrentMovesKeepBoth ==
  /\ Cardinality(files) = Cardinality(files_at_start)
  /\ {f.img : f \in files} = {f.img : f \in files_at_start}

-----------------------------------------------------------------------------
(* Properties of the entry points (checked under RunSpec).                 *)

\* The directory that script k requires is missing in the record.
RequiredMissing(r) ==
  IF r.step = 1 THEN r.src = "missing" ELSE r.out = "missing"

\* C13: each command-line entry point ends with a non-zero exit status when
\* the directory it requires does not exist (source for classify, output
\* for the other three), and with status 0 otherwise.
C13_ExitStatus ==
  cli.step # 0 => ((cli.code # 0) <=> RequiredMissing(cli))

\* C14: in run_all_steps.main the four steps run strictly in the order 1,
\* 2, 3, 4, a step is started only if the step before ended with exit code
\* 0, whatever is answered at the prompts, and the final message is printed
\* only after four successful steps.
C14_StepsInOrderAfterSuccess ==
  /\ \A i \in 1..Len(runs) : runs[i].step = i
  /\ \A i \in 1..(Len(runs) - 1) : runs[i].code = 0
  /\ all_done => (Len(runs) = 4 /\ \A i \in 1..4 : runs[i].code = 0)

=============================================================================
